---- MODULE Spec2Model ----
(***************************************************************************)
(* Model of the KAZE AI client (src/src/App.jsx): the session state        *)
(* machine (appState), microphone capture, the transcription and plan      *)
(* requests, and the Firestore-backed chat history.                        *)
(*                                                                         *)
(* Every React event handler is one action.  An async function is cut at   *)
(* each `await`: the part up to the await is one action, the resumption    *)
(* after the awaited promise settles is another, so that user events and   *)
(* snapshot deliveries interleave exactly where the event loop lets them.  *)
(* A handler is enabled only when the element it is bound to is rendered   *)
(* and not `disabled` in the JSX.                                          *)
(***************************************************************************)
EXTENDS Integers, Sequences, FiniteSets, TLC

\* ------------------------------------------------------------- bounds
\* User actions that start something in one run: mic clicks that start a capture,
\* text submits that start a plan, and language changes.  (Stop, confirm, retry and
\* typing follow from these and are not counted.)
MaxUserOps == 2

\* Records of an in-memory log from which a context window is cut (the window is 6).
MaxLog == 8

\* Entries of a timeline_data array of a raw record.
MaxTimeline == 2

\* Seconds over which the timers of showNotification are followed.
MaxTime == 5

\* Records of a log whose cards are played.
MaxCards == 3

\* ---------------------------------------------------------- constants
\* Japanese string literals of the source are written romanised, with a "ja:" prefix.
Null == "null"
Placeholder == "Translating..."
MicDenied == "Microphone Access Denied."
TranscriptionFailed == "Transcription failed."
PlanningFailed == "Planning failed. Check console."

AppStates == {"idle", "recording", "transcribing", "verification", "planning"}
Langs == {"English", "Japanese"}

\* Texts the user can have in the input box: empty, whitespace only, a question.
InputTexts == {"", " ", "What should I wear?"}
\* Values of res.data.transcript / res.data.translation; a missing field is
\* modelled by the empty string (both are falsy and render as nothing).
JaTexts == {"", "ja:Tokyo de nani wo kiru?"}
EnTexts == {"", "What to wear in Tokyo?"}
\* data.user_translation of a plan response: a translation, or undefined when the
\* body has no such field
UserTranslation == "ja:nani wo kiru beki desu ka?"
Undefined == "undefined"
UserTranslations == {UserTranslation, Undefined}

\* coords: null of a timeline item (no position); a position is a pair <<lat, lon>>.
NullCoords == << >>

EmptyTranscript == [ja |-> "", en |-> ""]

VARIABLES
    appState,          \* useState('idle')
    targetLang,        \* useState('English')
    transcriptData,    \* useState({ja: "", en: ""})
    inputText,         \* useState("")
    user,              \* useState(null): TRUE once onAuthStateChanged delivered an identity
    notification,      \* useState(null): the message shown, or Null
    showClearModal,    \* useState(false)
    userOps,           \* counted user actions so far (bounded by MaxUserOps)
    acquiring,         \* startRecording calls awaiting getUserMedia
    recState,          \* per MediaRecorder: "none", "recording", "stopping", "inactive", "failed"
    streamOpen,        \* per getUserMedia stream: tracks still live
    mediaRecorderRef,  \* mediaRecorderRef.current: a recorder id, or 0 for null
    audioChunks,       \* total size of audioChunksRef.current
    audioContextRef,   \* audioContextRef.current: the capture whose AudioContext it holds, or 0
    ctxOpen,           \* per capture: its AudioContext (the analysis graph) is not closed
    animating,         \* per capture: its animate loop has a frame requested
    animationFrameRef, \* animationFrameRef.current: the capture whose frame id it holds, or 0
    supported,         \* the types for which MediaRecorder.isTypeSupported answers true
    mimeType,          \* per capture: the local mimeType of its startRecording call, or NoType
    transcribing,      \* POST /transcribe requests in flight
    tasks,             \* per executePlanGeneration call: where it is and what it did
    nextTask,          \* executePlanGeneration calls made so far
    store,             \* the chat_history collection, ordered by createdAt
    clock,             \* server timestamps / document ids handed out so far
    chatHistory,       \* useState([]): the in-memory log
    deleting,          \* deleteDoc calls of handleClearHistory not yet settled
    clears,            \* handleClearHistory calls made so far
    clearReads,        \* handleClearHistory calls awaiting getDocs
    historyContext,    \* the history field of the latest POST /generate_plan
    peerFeed,          \* an empty snapshot is on its way to a second client of the identity
    toggling,          \* updateDoc calls of toggleCardLanguage not yet settled
    delivered,         \* the snapshot the onSnapshot callback last ran on
    now,               \* seconds elapsed, where the timers of showNotification are followed
    timers,            \* setTimeout callbacks of showNotification pending: the times they are due
    shownAt,           \* when the latest showNotification was called
    playingIndex,      \* useState(null): the card whose audio plays, or NoIndex
    audible,           \* window.speechSynthesis: the cards whose utterance is being spoken
    staleEnds,         \* end events queued for utterances that cancel() cut off (0 or 1)
    played,            \* the card of the latest toggleAudio call, or NoIndex
    lastSession,       \* ids of the messages the log showed when the page was last reloaded
    ev                 \* what the last step was, for the steps the properties name:
                       \* "submit", "confirm", "transcribeFailed", "context", "toggleAudio",
                       \* "ended", "TypeError", "retry"; "noSubmit" and "noConfirm" for a
                       \* submit of text or a confirm made without an identity; "other"
                       \* otherwise

vars == <<appState, targetLang, transcriptData, inputText, user, notification,
          showClearModal, userOps, acquiring, recState, streamOpen, mediaRecorderRef,
          audioChunks, audioContextRef, ctxOpen, animating, animationFrameRef, supported,
          mimeType, transcribing, tasks, nextTask, store, clock, chatHistory,
          deleting, clears, clearReads, historyContext, peerFeed, toggling, delivered,
          now, timers, shownAt, playingIndex, audible, staleEnds, played, lastSession, ev>>

sessionVars == <<appState, transcriptData>>
uiVars == <<targetLang, inputText, user, showClearModal>>
micVars == <<acquiring, recState, streamOpen, mediaRecorderRef, audioChunks,
             audioContextRef, ctxOpen, animating, animationFrameRef, supported, mimeType>>
planVars == <<tasks, nextTask>>
clearVars == <<deleting, clears, clearReads>>
storeVars == <<store, clock>>
feedVars == <<historyContext, peerFeed, toggling, delivered>>
timerVars == <<now, timers, shownAt>>
speechVars == <<playingIndex, audible, staleEnds, played>>

\* useState(null) of playingIndex
NoIndex == 0

\* no timer of showNotification pending, nothing spoken
Silent ==
    /\ now = 0
    /\ timers = {}
    /\ shownAt = 0
    /\ playingIndex = NoIndex
    /\ audible = {}
    /\ staleEnds = 0
    /\ played = NoIndex

Recs == 1..MaxUserOps
TaskIds == 1..MaxUserOps

Trim(s) == IF s = " " THEN "" ELSE s

\* --------------------------------------------------------- documents
WelcomeData ==
    [category |-> "General", weather |-> [temp |-> "--", icon_code |-> ""], city |-> "System",
     content |-> [
        en |-> [title |-> "Welcome to KAZE AI", report |-> "I am ready to help.",
                timeline_data |-> << [text |-> "Select a category below", coords |-> NullCoords],
                                     [text |-> "Tap the Mic to speak", coords |-> NullCoords],
                                     [text |-> "Or type your question directly", coords |-> NullCoords] >>],
        ja |-> [title |-> "ja:KAZE AI he youkoso", report |-> "ja:junbi kanryou shimashita.",
                timeline_data |-> << [text |-> "ja:shita no kategorii wo sentaku shite kudasai", coords |-> NullCoords],
                                     [text |-> "ja:maiku wo tappu shite hanasu", coords |-> NullCoords],
                                     [text |-> "ja:mata wa chokusetsu nyuuryoku shite kudasai", coords |-> NullCoords] >>]]]

ErrorData ==
    [category |-> "System", weather |-> [temp |-> "!", icon_code |-> ""], city |-> "Error",
     content |-> [
        en |-> [title |-> "Error", report |-> "Could not generate plan.", timeline_data |-> << >>],
        ja |-> [title |-> "ja:eraa", report |-> "ja:puran wo sakusei dekimasen deshita.", timeline_data |-> << >>]]]

\* res.data of a successful POST /generate_plan (city, weather, category, content)
PlanData ==
    [category |-> "Fashion", weather |-> [temp |-> "18", icon_code |-> "01d"], city |-> "Tokyo",
     content |-> [
        en |-> [title |-> "Light layers", report |-> "Mild and sunny.",
                timeline_data |-> << [text |-> "Shibuya", coords |-> <<35, 139>>, name |-> "Shibuya"] >>],
        ja |-> [title |-> "ja:kasanegi", report |-> "ja:odayaka na hare.",
                timeline_data |-> << [text |-> "ja:Shibuya", coords |-> <<35, 139>>, name |-> "ja:Shibuya"] >>]]]

\* a user message written with its sub left empty
UserDocWithoutSub(id, textInput, isVoice) ==
    [id |-> id, createdAt |-> id, type |-> "user", main |-> textInput, sub |-> "",
     isVoice |-> isVoice]

UserDoc(id, textInput, isVoice) ==
    [id |-> id, createdAt |-> id, type |-> "user", main |-> textInput, sub |-> Placeholder,
     isVoice |-> isVoice]

BotDoc(id, lang, data) ==
    [id |-> id, createdAt |-> id, type |-> "bot", isWelcome |-> FALSE, displayLang |-> lang,
     data |-> data]

WelcomeDoc(id) ==
    [id |-> id, createdAt |-> id, type |-> "bot", isWelcome |-> TRUE, displayLang |-> "English",
     data |-> WelcomeData]

IsWelcome(d) == d.type = "bot" /\ d.isWelcome

StoreIds == {store[i].id : i \in 1..Len(store)}

\* a collection that lists a new document before the older ones
AddDocFirst(s, d) == <<d>> \o s

\* addDoc(historyRef, doc) acknowledged: the document joins the collection with the
\* next server timestamp, which is later than every earlier one.
AddDoc(s, d) == Append(s, d)

\* ---------------------------------------------------------- sanitizer
SafeItem(t) ==
    [text |-> t.text,
     coords |-> IF Len(t.coords) = 2 THEN t.coords ELSE NullCoords,
     name |-> IF "name" \in DOMAIN t THEN t.name ELSE ""]

SafeLocalized(c) ==
    [title |-> c.title, report |-> c.report,
     timeline_data |-> [i \in 1..Len(c.timeline_data) |-> SafeItem(c.timeline_data[i])]]

\* The snapshot mapping applied to a document this client wrote (all leaves well typed).
Sanitize(d) ==
    IF d.type = "user" THEN d
    ELSE [d EXCEPT !.data.content = [en |-> SafeLocalized(d.data.content.en),
                                     ja |-> SafeLocalized(d.data.content.ja)]]

SanitizeAll(s) == [i \in 1..Len(s) |-> Sanitize(s[i])]


\* ------------------------------------------------------ notifications
\* showNotification(message): setNotification, then setTimeout(() => setNotification(null), 3000)
ShowNotification(message) ==
    notification' = message

\* a setTimeout callback of showNotification runs and finds a notification shown
\* (the timer of the notification shown is pending as long as it is shown)
NotificationTimeout ==
    /\ ev' = "other"
    /\ notification # Null
    /\ notification' = Null
    /\ UNCHANGED <<sessionVars, uiVars, userOps, micVars, transcribing, planVars,
                   storeVars, clearVars, feedVars, chatHistory>>
    /\ UNCHANGED <<timerVars, speechVars, lastSession>>

\* ------------------------------------------------------ identity
\* onAuthStateChanged(auth, setUser) delivers the anonymous identity
AuthStateChanged ==
    /\ ev' = "other"
    /\ ~user
    /\ user' = TRUE
    /\ UNCHANGED <<sessionVars, targetLang, inputText, showClearModal, notification,
                   userOps, micVars, transcribing, planVars, storeVars, clearVars, feedVars,
                   chatHistory>>
    /\ UNCHANGED <<timerVars, speechVars, lastSession>>

\* ------------------------------------------------------ what is rendered
\* {appState !== 'verification' && (<div> ... input bar ... </div>)}
InputBarRendered == appState # "verification"

\* <input ... disabled={appState !== 'idle'} />
InputEnabled == InputBarRendered /\ appState = "idle"

\* the Send button without its disabled attribute
SendButtonNeverDisabled == InputBarRendered /\ Trim(inputText) # ""

\* <button onClick={handleTextSubmit} disabled={appState !== 'idle'}>, shown when
\* inputText.trim().length > 0
SendButtonEnabled == InputBarRendered /\ Trim(inputText) # "" /\ appState = "idle"

\* the mic button: shown when the text is blank and no spinner replaces it;
\* disabled={appState !== 'idle' && appState !== 'recording'}
MicButtonEnabled ==
    /\ InputBarRendered
    /\ Trim(inputText) = ""
    /\ ~(appState = "transcribing" \/ appState = "planning")
    /\ ~(appState # "idle" /\ appState # "recording")

\* ------------------------------------------------------ audio capture
\* the id the next MediaRecorder (and its stream) gets
\* the container types startRecording asks MediaRecorder.isTypeSupported about or uses
ContainerTypes == {"audio/mp4", "audio/ogg", "audio/webm"}

\* no mimeType chosen (the capture has not got that far)
NoType == ""

\* the browser the page runs in, where isTypeSupported is not followed
Browser == {"audio/webm", "audio/ogg"}

\* let mimeType = 'audio/webm'; if (isTypeSupported('audio/mp4')) ... else if
\* (isTypeSupported('audio/ogg')) ...
ChooseMimeType ==
    IF "audio/mp4" \in supported THEN "audio/mp4"
    ELSE IF "audio/ogg" \in supported THEN "audio/ogg"
    ELSE "audio/webm"

FreeRec == CHOOSE r \in Recs : recState[r] = "none" /\ \A q \in Recs : q < r => recState[q] # "none"

\* startRecording, up to `await navigator.mediaDevices.getUserMedia`
StartRecording ==
    /\ userOps < MaxUserOps
    /\ userOps' = userOps + 1
    /\ acquiring' = acquiring + 1
    /\ UNCHANGED <<recState, streamOpen, mediaRecorderRef, audioChunks, audioContextRef,
                   ctxOpen, animating, animationFrameRef, supported, mimeType>>

\* stopRecording
StopRecording ==
    /\ IF mediaRecorderRef # 0 /\ appState = "recording"
       THEN /\ recState' = IF recState[mediaRecorderRef] = "recording"
                           THEN [recState EXCEPT ![mediaRecorderRef] = "stopping"]
                           ELSE recState
            /\ streamOpen' = [streamOpen EXCEPT ![mediaRecorderRef] = FALSE]
            /\ IF audioContextRef # 0
               THEN /\ ctxOpen' = [ctxOpen EXCEPT ![audioContextRef] = FALSE]
                    /\ audioContextRef' = 0
               ELSE UNCHANGED <<ctxOpen, audioContextRef>>
            /\ IF animationFrameRef # 0
               THEN /\ animating' = [animating EXCEPT ![animationFrameRef] = FALSE]
                    /\ animationFrameRef' = 0
               ELSE UNCHANGED <<animating, animationFrameRef>>
       ELSE UNCHANGED <<recState, streamOpen, audioContextRef, ctxOpen, animating,
                        animationFrameRef>>
    /\ UNCHANGED <<userOps, acquiring, mediaRecorderRef, audioChunks, supported, mimeType>>

\* handleMicClick
HandleMicClick ==
    /\ ev' = "other"
    /\ MicButtonEnabled
    /\ IF appState = "recording" THEN StopRecording ELSE StartRecording
    /\ UNCHANGED <<sessionVars, uiVars, notification, transcribing, planVars,
                   storeVars, clearVars, feedVars, chatHistory>>
    /\ UNCHANGED <<timerVars, speechVars, lastSession>>

\* startRecording between getUserMedia and `new MediaRecorder`: the AudioContext and
\* analyser are created and kept in the refs, and animate() runs once, which requests
\* its next frame and keeps the request id in animationFrameRef
StartAnalysis(r) ==
    /\ ctxOpen' = [ctxOpen EXCEPT ![r] = TRUE]
    /\ audioContextRef' = r
    /\ animating' = [animating EXCEPT ![r] = TRUE]
    /\ animationFrameRef' = r

\* the frame requested by the animate loop of capture r arrives: animate runs, sets
\* the bars and requests the next frame (analyserRef.current is never reset to null)
AnimationFrame(r) ==
    /\ ev' = "other"
    /\ animating[r]
    /\ animationFrameRef' = r
    /\ UNCHANGED <<sessionVars, uiVars, notification, userOps, acquiring, recState,
                   streamOpen, mediaRecorderRef, audioChunks, audioContextRef, ctxOpen,
                   animating, supported, mimeType, transcribing, planVars, storeVars, clearVars, feedVars,
                   chatHistory>>
    /\ UNCHANGED <<timerVars, speechVars, lastSession>>

\* startRecording resumes after getUserMedia settled:
\*   "micDenied"       the promise rejected (permission denied, no device)
\*   "micRecorderFail" the stream was acquired and a later statement of the try block threw
\*   "micOk"           the recorder was started: new MediaRecorder(stream, { mimeType })
\*                     throws NotSupportedError for a type the browser does not support
GetUserMediaSettled(outcome) ==
    /\ ev' = "other"
    /\ acquiring > 0
    /\ acquiring' = acquiring - 1
    /\ UNCHANGED supported
    /\ CASE outcome = "micDenied" ->
              /\ ShowNotification(MicDenied)
              /\ UNCHANGED <<appState, recState, streamOpen, mediaRecorderRef, audioChunks,
                             audioContextRef, ctxOpen, animating, animationFrameRef, mimeType>>
         [] outcome = "micRecorderFail" ->
              /\ ShowNotification(MicDenied)
              /\ mimeType' = [mimeType EXCEPT ![FreeRec] = ChooseMimeType]
              /\ recState' = [recState EXCEPT ![FreeRec] = "failed"]
              /\ streamOpen' = [streamOpen EXCEPT ![FreeRec] = TRUE]
              /\ StartAnalysis(FreeRec)
              /\ UNCHANGED <<appState, mediaRecorderRef, audioChunks>>
         [] outcome = "micOk" ->
              /\ ChooseMimeType \in supported
              /\ mimeType' = [mimeType EXCEPT ![FreeRec] = ChooseMimeType]
              /\ recState' = [recState EXCEPT ![FreeRec] = "recording"]
              /\ streamOpen' = [streamOpen EXCEPT ![FreeRec] = TRUE]
              /\ StartAnalysis(FreeRec)
              /\ mediaRecorderRef' = FreeRec
              /\ audioChunks' = 0
              /\ appState' = "recording"
              /\ UNCHANGED notification
    /\ UNCHANGED <<transcriptData, uiVars, userOps, transcribing, planVars, storeVars,
                   clearVars, feedVars, chatHistory>>
    /\ UNCHANGED <<timerVars, speechVars, lastSession>>

\* handleStopAndTranscribe without `if (audioBlob.size === 0)`
StopAndTranscribeUnchecked(blobSize) ==
    /\ appState' = "transcribing"
    /\ transcribing' = transcribing + 1

\* handleStopAndTranscribe, up to `await axios.post(.../transcribe)`; blobSize is
\* the size of new Blob(audioChunksRef.current)
HandleStopAndTranscribe(blobSize) ==
    IF blobSize = 0
    THEN /\ appState' = "idle"
         /\ UNCHANGED transcribing
    ELSE /\ appState' = "transcribing"
         /\ transcribing' = transcribing + 1

\* the recorder r delivers its data (ondataavailable keeps it when size > 0) and
\* then its stop event (onstop calls handleStopAndTranscribe)
RecorderStopped(r, size) ==
    /\ ev' = "other"
    /\ recState[r] = "stopping"
    /\ recState' = [recState EXCEPT ![r] = "inactive"]
    /\ audioChunks' = IF size > 0 THEN audioChunks + size ELSE audioChunks
    /\ HandleStopAndTranscribe(audioChunks')
    /\ UNCHANGED <<transcriptData, uiVars, notification, userOps, acquiring, streamOpen,
                   mediaRecorderRef, audioContextRef, ctxOpen, animating, animationFrameRef,
                   supported, mimeType, planVars, storeVars, clearVars, feedVars, chatHistory>>
    /\ UNCHANGED <<timerVars, speechVars, lastSession>>

\* the rest of the try block of handleStopAndTranscribe, with res.data = body
TranscribeThen(body) ==
    /\ transcriptData' = [ja |-> body.transcript, en |-> body.translation]
    /\ appState' = "verification"
    /\ UNCHANGED notification

\* a catch block of handleStopAndTranscribe without setAppState('idle')
TranscribeCatchStaysBusy ==
    /\ ShowNotification(TranscriptionFailed)
    /\ UNCHANGED <<appState, transcriptData>>

\* the catch block of handleStopAndTranscribe
TranscribeCatch ==
    /\ ShowNotification(TranscriptionFailed)
    /\ appState' = "idle"
    /\ UNCHANGED transcriptData

\* handleStopAndTranscribe resumes after the POST settled: with a 2xx response whose
\* res.data is body (ok), or with a rejected request (~ok)
TranscribeSettled(ok, body) ==
    /\ ev' = IF ok THEN "other" ELSE "transcribeFailed"
    /\ transcribing > 0
    /\ transcribing' = transcribing - 1
    /\ IF ok THEN TranscribeThen(body) ELSE TranscribeCatch
    /\ UNCHANGED <<uiVars, userOps, micVars, planVars, storeVars, clearVars, feedVars, chatHistory>>
    /\ UNCHANGED <<timerVars, speechVars, lastSession>>

TranscribeBodies == [transcript : JaTexts, translation : EnTexts]

\* a handleRetry that leaves the transcript in place
HandleRetryKeepingTranscript ==
    /\ ev' = "retry"
    /\ appState = "verification"
    /\ appState' = "idle"
    /\ UNCHANGED <<transcriptData, uiVars, notification, userOps, micVars, transcribing,
                   planVars, storeVars, clearVars, feedVars, chatHistory>>
    /\ UNCHANGED <<timerVars, speechVars, lastSession>>

\* handleRetry (the Retry button of the verification popup)
HandleRetry ==
    /\ ev' = "retry"
    /\ appState = "verification"
    /\ transcriptData' = EmptyTranscript
    /\ appState' = "idle"
    /\ UNCHANGED <<uiVars, notification, userOps, micVars, transcribing, planVars,
                   storeVars, clearVars, feedVars, chatHistory>>
    /\ UNCHANGED <<timerVars, speechVars, lastSession>>

\* ------------------------------------------------------ context window
\* JSON.stringify(value): a text that holds the value, not the value
Stringify(value) == <<"json", value>>

\* s.slice(-n)
SliceLast(s, n) == IF Len(s) <= n THEN s ELSE SubSeq(s, Len(s) - n + 1, Len(s))

\* {role: msg.type === 'user' ? 'user' : 'assistant',
\*  content: msg.type === 'user' ? msg.main : JSON.stringify(msg.data)}
ContextEntry(msg) ==
    IF msg.type = "user"
    THEN [role |-> "user", content |-> msg.main]
    ELSE [role |-> "assistant", content |-> Stringify(msg.data)]

NotWelcome(msg) == ~IsWelcome(msg)

\* a context window cut from the head of the log: .slice(0, 6) in place of .slice(-6)
HistoryContextFromHead(log) ==
    LET all == SelectSeq(log, NotWelcome)
        kept == IF Len(all) <= 6 THEN all ELSE SubSeq(all, 1, 6)
    IN  [k \in 1..Len(kept) |-> ContextEntry(kept[k])]

\* chatHistory.filter(msg => !msg.isWelcome).slice(-6).map(...)
HistoryContext(log) ==
    LET kept == SliceLast(SelectSeq(log, NotWelcome), 6)
    IN  [k \in 1..Len(kept) |-> ContextEntry(kept[k])]

\* ------------------------------------------------------ plan generation
\* One executePlanGeneration call: its arguments, the targetLang of the render it was
\* made from, the await it is suspended at (phase), its userDocRef and the
\* data.user_translation it is writing; pair is the transcriptData that
\* handleConfirmVoice read when it made the call and history the chatHistory of the
\* render the call was made from, both kept until the user message is written.
\* The phases are
\*   "addUser"  await addDoc of the user message
\*   "request"  await axios.post(.../generate_plan)
\*   "patch"    await updateDoc(userDocRef, ...)
\*   "addBot"   await addDoc of the plan
\*   "addError" await addDoc of the error record, in the catch block
\*   "done"     the call has returned
NoTask == [phase |-> "none", textInput |-> "", isVoice |-> FALSE, lang |-> "English",
           pair |-> EmptyTranscript, history |-> << >>, userDocRef |-> 0,
           translation |-> ""]

\* the phases in which the POST /generate_plan of a call has been sent
Requested == {"request", "patch", "addBot", "addError"}

\* a call that has returned
DoneTask == [NoTask EXCEPT !.phase = "done"]

HasDoc(s, id) == \E i \in 1..Len(s) : s[i].id = id

\* updateDoc(ref, {sub: value}) acknowledged
UpdateSub(s, id, value) ==
    [i \in 1..Len(s) |-> IF s[i].id = id THEN [s[i] EXCEPT !.sub = value] ELSE s[i]]

\* an executePlanGeneration without `if (!user || !db) return`
ExecutePlanGenerationWithoutIdentity(textInput, isVoice) ==
    /\ nextTask < MaxUserOps
    /\ nextTask' = nextTask + 1
    /\ appState' = "planning"
    /\ tasks' = [tasks EXCEPT ![nextTask + 1] =
                    [NoTask EXCEPT !.phase = "addUser", !.textInput = textInput,
                                   !.isVoice = isVoice, !.lang = targetLang,
                                   !.pair = IF isVoice THEN transcriptData
                                            ELSE EmptyTranscript,
                                   !.history = chatHistory]]

\* executePlanGeneration(textInput, isVoice), up to the first `await addDoc`
ExecutePlanGeneration(textInput, isVoice) ==
    IF ~user
    THEN UNCHANGED <<appState, planVars>>
    ELSE /\ nextTask < MaxUserOps
         /\ nextTask' = nextTask + 1
         /\ appState' = "planning"
         /\ tasks' = [tasks EXCEPT ![nextTask + 1] =
                         [NoTask EXCEPT !.phase = "addUser", !.textInput = textInput,
                                        !.isVoice = isVoice, !.lang = targetLang,
                                        !.pair = IF isVoice THEN transcriptData
                                                 ELSE EmptyTranscript,
                                        !.history = chatHistory]]

\* handleTextSubmit: the form's submit (Enter in the enabled input) or the Send button
HandleTextSubmit ==
    /\ ev' = IF Trim(inputText) # "" /\ user THEN "submit"
             ELSE IF Trim(inputText) # "" THEN "noSubmit" ELSE "other"
    /\ InputEnabled \/ SendButtonEnabled
    /\ IF Trim(inputText) = ""
       THEN UNCHANGED <<appState, planVars, inputText, userOps>>
       ELSE /\ ExecutePlanGeneration(inputText, FALSE)
            /\ inputText' = ""
            /\ IF user
               THEN userOps < MaxUserOps /\ userOps' = userOps + 1
               ELSE UNCHANGED userOps
    /\ UNCHANGED <<transcriptData, targetLang, user, showClearModal, notification,
                   micVars, transcribing, storeVars, clearVars, feedVars, chatHistory>>
    /\ UNCHANGED <<timerVars, speechVars, lastSession>>

\* the locals mainText and subText of handleConfirmVoice
MainText(lang, pair) == IF lang = "English" THEN pair.en ELSE pair.ja
SubText(lang, pair) == IF lang = "English" THEN pair.ja ELSE pair.en

\* a handleConfirmVoice that passes mainText, the transcript in the display language
HandleConfirmVoiceSendingMainText ==
    /\ ev' = IF user THEN "confirm" ELSE "noConfirm"
    /\ appState = "verification"
    /\ ExecutePlanGeneration(MainText(targetLang, transcriptData), TRUE)
    /\ UNCHANGED <<transcriptData, uiVars, notification, userOps, micVars, transcribing,
                   storeVars, clearVars, feedVars, chatHistory>>
    /\ UNCHANGED <<timerVars, speechVars, lastSession>>

\* handleConfirmVoice (the Generate button of the verification popup): mainText and
\* subText are computed and not used
HandleConfirmVoice ==
    /\ ev' = IF user THEN "confirm" ELSE "noConfirm"
    /\ appState = "verification"
    /\ ExecutePlanGeneration(transcriptData.ja, TRUE)
    /\ UNCHANGED <<transcriptData, uiVars, notification, userOps, micVars, transcribing,
                   storeVars, clearVars, feedVars, chatHistory>>
    /\ UNCHANGED <<timerVars, speechVars, lastSession>>

\* a catch block of executePlanGeneration without setAppState('idle')
PlanCatchStaysPlanning ==
    /\ ShowNotification(PlanningFailed)
    /\ UNCHANGED <<appState, transcriptData>>

\* the catch block of executePlanGeneration, up to its `await addDoc`
PlanCatch ==
    /\ ShowNotification(PlanningFailed)
    /\ appState' = "idle"
    /\ UNCHANGED transcriptData

\* the first addDoc (the user message) settled
UserAddSettled(t, ok) ==
    /\ ev' = "other"
    /\ tasks[t].phase = "addUser"
    /\ IF ok
       THEN /\ store' = AddDoc(store, UserDoc(clock + 1, tasks[t].textInput, tasks[t].isVoice))
            /\ clock' = clock + 1
            \* historyContext is built and the POST /generate_plan is sent
            /\ historyContext' = HistoryContext(tasks[t].history)
            /\ tasks' = [tasks EXCEPT ![t].phase = "request", ![t].userDocRef = clock + 1,
                                      ![t].pair = EmptyTranscript, ![t].history = << >>]
            /\ UNCHANGED appState
       ELSE /\ appState' = "idle"
            /\ tasks' = [tasks EXCEPT ![t] = DoneTask]
            /\ UNCHANGED <<store, clock, historyContext>>
    /\ UNCHANGED <<transcriptData, uiVars, notification, userOps, micVars, transcribing,
                   nextTask, clearVars, peerFeed, toggling, delivered, chatHistory>>
    /\ UNCHANGED <<timerVars, speechVars, lastSession>>

\* if (!isVoice && userDocRef)
PatchesUserDoc(t) == ~tasks[t].isVoice /\ tasks[t].userDocRef # 0

\* POST /generate_plan settled: 2xx with data.user_translation = translation (ok), or
\* rejected
PlanSettled(t, ok, translation) ==
    /\ ev' = "other"
    /\ tasks[t].phase = "request"
    /\ IF ok
       THEN /\ tasks' = IF PatchesUserDoc(t)
                       THEN [tasks EXCEPT ![t].phase = "patch", ![t].translation = translation]
                       ELSE [tasks EXCEPT ![t].phase = "addBot"]
            /\ UNCHANGED <<sessionVars, notification>>
       ELSE /\ PlanCatch
            /\ tasks' = [tasks EXCEPT ![t].phase = "addError"]
    /\ UNCHANGED <<uiVars, userOps, micVars, transcribing, nextTask, storeVars,
                   clearVars, feedVars, chatHistory>>
    /\ UNCHANGED <<timerVars, speechVars, lastSession>>

\* updateDoc(userDocRef, {sub: data.user_translation}) settled; it is rejected when
\* the document no longer exists, and it throws when the field value is undefined
PatchSettled(t, ok) ==
    /\ ev' = "other"
    /\ tasks[t].phase = "patch"
    /\ ok => HasDoc(store, tasks[t].userDocRef) /\ tasks[t].translation # Undefined
    /\ IF ok
       THEN /\ store' = UpdateSub(store, tasks[t].userDocRef, tasks[t].translation)
            /\ tasks' = [tasks EXCEPT ![t].phase = "addBot", ![t].translation = ""]
            /\ UNCHANGED <<sessionVars, notification>>
       ELSE /\ PlanCatch
            /\ tasks' = [tasks EXCEPT ![t].phase = "addError", ![t].translation = ""]
            /\ UNCHANGED store
    /\ UNCHANGED <<uiVars, userOps, micVars, transcribing, nextTask, clock,
                   clearVars, feedVars, chatHistory>>
    /\ UNCHANGED <<timerVars, speechVars, lastSession>>

\* a try block that throws after the plan was written, so that the catch block runs too
PlanThenThrows(t) ==
    /\ PlanCatch
    /\ tasks' = [tasks EXCEPT ![t].phase = "addError"]

\* the end of the try block of executePlanGeneration, after the plan was written
PlanThen(t) ==
    /\ appState' = "idle"
    /\ transcriptData' = EmptyTranscript
    /\ tasks' = [tasks EXCEPT ![t] = DoneTask]
    /\ UNCHANGED notification

\* addDoc of the generated plan settled
BotAddSettled(t, ok) ==
    /\ ev' = "other"
    /\ tasks[t].phase = "addBot"
    /\ IF ok
       THEN /\ store' = AddDoc(store, BotDoc(clock + 1, tasks[t].lang, PlanData))
            /\ clock' = clock + 1
            /\ PlanThen(t)
       ELSE /\ PlanCatch
            /\ tasks' = [tasks EXCEPT ![t].phase = "addError"]
            /\ UNCHANGED <<store, clock>>
    /\ UNCHANGED <<uiVars, userOps, micVars, transcribing, nextTask,
                   clearVars, feedVars, chatHistory>>
    /\ UNCHANGED <<timerVars, speechVars, lastSession>>

\* addDoc of the error record (in the catch block) settled; a rejection is not handled
ErrorAddSettled(t, ok) ==
    /\ ev' = "other"
    /\ tasks[t].phase = "addError"
    /\ IF ok
       THEN /\ store' = AddDoc(store, BotDoc(clock + 1, "English", ErrorData))
            /\ clock' = clock + 1
       ELSE UNCHANGED <<store, clock>>
    /\ tasks' = [tasks EXCEPT ![t] = DoneTask]
    /\ UNCHANGED <<sessionVars, uiVars, notification, userOps, micVars, transcribing,
                   nextTask, clearVars, feedVars, chatHistory>>
    /\ UNCHANGED <<timerVars, speechVars, lastSession>>

\* ------------------------------------------------------ other user events
\* onChange of the text input
TypeText(text) ==
    /\ ev' = "other"
    /\ InputEnabled
    /\ text # inputText
    /\ inputText' = text
    /\ UNCHANGED <<sessionVars, targetLang, user, showClearModal, notification, userOps,
                   micVars, transcribing, planVars, storeVars, clearVars, feedVars, chatHistory>>
    /\ UNCHANGED <<timerVars, speechVars, lastSession>>

\* Effect 5: the welcome card at the head of the in-memory log follows targetLang
SyncWelcomeLang(history, lang) ==
    IF Len(history) > 0 /\ IsWelcome(history[1])
    THEN [history EXCEPT ![1].displayLang = lang]
    ELSE history

\* the EN / JP buttons: setTargetLang, then Effect 5
SetTargetLang(lang) ==
    /\ ev' = "other"
    /\ lang # targetLang
    /\ userOps < MaxUserOps
    /\ userOps' = userOps + 1
    /\ targetLang' = lang
    /\ chatHistory' = SyncWelcomeLang(chatHistory, lang)
    /\ UNCHANGED <<sessionVars, inputText, user, showClearModal, notification,
                   micVars, transcribing, planVars, storeVars, clearVars, feedVars>>
    /\ UNCHANGED <<timerVars, speechVars, lastSession>>

\* ------------------------------------------------------ history store
\* no snapshot is on its way to the second client
NoSnapshot == FALSE

\* the listener has not been called yet
NothingDelivered == [any |-> FALSE, docs |-> << >>]

\* What the listener of this client is shown: the collection with this client's
\* pending deletes applied (a local write shows in the listener before the server
\* answers it, and a rejected one is taken back).  handleClearHistory starts its
\* deletes one after the other in createdAt order and the listener is called for each:
\* ViewUpTo(upto) is the collection with the pending deletes up to document upto applied.
ViewUpTo(upto) == SelectSeq(store, LAMBDA d : ~(d.id \in deleting /\ d.id <= upto))

\* the collection with every pending delete applied
View == ViewUpTo(clock)

\* the pending deletes the listener has already been shown
Shown == {id \in deleting : delivered.any /\ ~HasDoc(delivered.docs, id)}

\* the onSnapshot callback, called with a view of the collection later than the one it
\* was last called with: an empty snapshot seeds the welcome record, any other
\* snapshot replaces the in-memory log
\* a listener that also sends the session back to Idle
SnapshotResettingSession(upto) ==
    LET image == ViewUpTo(upto) IN
    /\ ev' = "other"
    /\ user
    /\ ~delivered.any \/ delivered.docs # image
    /\ \A id \in Shown : ~HasDoc(image, id)
    /\ delivered' = [any |-> TRUE, docs |-> image]
    /\ appState' = "idle"
    /\ IF Len(SanitizeAll(image)) = 0
       THEN /\ store' = AddDoc(store, WelcomeDoc(clock + 1))
            /\ clock' = clock + 1
            /\ UNCHANGED chatHistory
       ELSE /\ chatHistory' = SanitizeAll(image)
            /\ UNCHANGED <<store, clock>>
    /\ UNCHANGED <<transcriptData, uiVars, notification, userOps, micVars, transcribing,
                   planVars, clearVars, historyContext, peerFeed, toggling>>
    /\ UNCHANGED <<timerVars, speechVars, lastSession>>

Snapshot(upto) ==
    LET image == ViewUpTo(upto) IN
    /\ ev' = "other"
    /\ user
    /\ ~delivered.any \/ delivered.docs # image
    /\ \A id \in Shown : ~HasDoc(image, id)
    /\ delivered' = [any |-> TRUE, docs |-> image]
    /\ IF Len(SanitizeAll(image)) = 0
       THEN /\ store' = AddDoc(store, WelcomeDoc(clock + 1))
            /\ clock' = clock + 1
            /\ UNCHANGED chatHistory
       ELSE /\ chatHistory' = SanitizeAll(image)
            /\ UNCHANGED <<store, clock>>
    /\ UNCHANGED <<sessionVars, uiVars, notification, userOps, micVars, transcribing,
                   planVars, clearVars, historyContext, peerFeed, toggling>>
    /\ UNCHANGED <<timerVars, speechVars, lastSession>>

\* ------------------------------------------------------ specification
\* the state after the first render in a browser supporting the given container types
InitOn(platform) ==
    /\ appState = "idle"
    /\ targetLang = "English"
    /\ transcriptData = EmptyTranscript
    /\ inputText = ""
    /\ user = FALSE
    /\ notification = Null
    /\ showClearModal = FALSE
    /\ userOps = 0
    /\ acquiring = 0
    /\ recState = [r \in Recs |-> "none"]
    /\ streamOpen = [r \in Recs |-> FALSE]
    /\ mediaRecorderRef = 0
    /\ audioChunks = 0
    /\ audioContextRef = 0
    /\ ctxOpen = [r \in Recs |-> FALSE]
    /\ animating = [r \in Recs |-> FALSE]
    /\ animationFrameRef = 0
    /\ supported = platform
    /\ mimeType = [r \in Recs |-> NoType]
    /\ transcribing = 0
    /\ tasks = [t \in TaskIds |-> NoTask]
    /\ nextTask = 0
    /\ store = << >>
    /\ clock = 0
    /\ chatHistory = << >>
    /\ deleting = {}
    /\ clears = 0
    /\ clearReads = 0
    /\ historyContext = << >>
    /\ peerFeed = NoSnapshot
    /\ toggling = {}
    /\ delivered = NothingDelivered
    /\ Silent
    /\ lastSession = {}
    /\ ev = "other"

Init == InitOn(Browser)

\* The session: identity, notifications, capture, transcription, the plan calls and the
\* history writes they make.  The live feed (Snapshot) is not a step here: it writes
\* chatHistory and the welcome record, and no guard or write below depends on either.
Next ==
    \/ AuthStateChanged
    \/ NotificationTimeout
    \/ HandleMicClick
    \/ \E outcome \in {"micDenied", "micRecorderFail", "micOk"} : GetUserMediaSettled(outcome)
    \/ \E r \in Recs, size \in 0..1 : RecorderStopped(r, size)
    \/ \E ok \in BOOLEAN, body \in TranscribeBodies : TranscribeSettled(ok, body)
    \/ HandleRetry
    \/ HandleConfirmVoice
    \/ HandleTextSubmit
    \/ \E text \in InputTexts : TypeText(text)
    \/ \E lang \in Langs : SetTargetLang(lang)
    \/ \E t \in TaskIds, ok \in BOOLEAN : UserAddSettled(t, ok)
    \/ \E t \in TaskIds, ok \in BOOLEAN, translation \in UserTranslations :
            PlanSettled(t, ok, translation)
    \/ \E t \in TaskIds, ok \in BOOLEAN : PatchSettled(t, ok)
    \/ \E t \in TaskIds, ok \in BOOLEAN : BotAddSettled(t, ok)
    \/ \E t \in TaskIds, ok \in BOOLEAN : ErrorAddSettled(t, ok)

Spec == Init /\ [][Next]_vars

\* ------------------------------------------------------ the context window alone
\* Everything but identity, store, in-memory log and ev, as the component is mounted,
\* with text in the input box
FreshWith(text) ==
    /\ appState = "idle"
    /\ targetLang = "English"
    /\ transcriptData = EmptyTranscript
    /\ inputText = text
    /\ notification = Null
    /\ showClearModal = FALSE
    /\ userOps = 0
    /\ acquiring = 0
    /\ recState = [r \in Recs |-> "none"]
    /\ streamOpen = [r \in Recs |-> FALSE]
    /\ mediaRecorderRef = 0
    /\ audioChunks = 0
    /\ audioContextRef = 0
    /\ ctxOpen = [r \in Recs |-> FALSE]
    /\ animating = [r \in Recs |-> FALSE]
    /\ animationFrameRef = 0
    /\ supported = Browser
    /\ mimeType = [r \in Recs |-> NoType]
    /\ transcribing = 0
    /\ tasks = [t \in TaskIds |-> NoTask]
    /\ nextTask = 0
    /\ deleting = {}
    /\ clears = 0
    /\ clearReads = 0
    /\ historyContext = << >>
    /\ peerFeed = NoSnapshot
    /\ toggling = {}
    /\ delivered = NothingDelivered
    /\ Silent
    /\ lastSession = {}

Fresh == FreshWith("")

\* as mounted, with a question typed into the input box
Typed == FreshWith("What should I wear?")

\* the kinds of record an in-memory log is made of here
LogKinds == {"user", "plan", "welcome"}

\* the sanitized record of a kind, created at time i
LogRecord(kind, i) ==
    CASE kind = "user" -> Sanitize(UserDoc(i, "What should I wear?", FALSE))
      [] kind = "plan" -> Sanitize(BotDoc(i, "English", PlanData))
      [] kind = "welcome" -> Sanitize(WelcomeDoc(i))

\* the in-memory log of the records of the given kinds, in createdAt order
Log(kinds) == [i \in 1..Len(kinds) |-> LogRecord(kinds[i], i)]

ContextInit ==
    /\ Fresh
    /\ user = TRUE
    /\ store = << >>
    /\ clock = 0
    /\ \E n \in 0..MaxLog : \E kinds \in [1..n -> LogKinds] : chatHistory = Log(kinds)
    /\ ev = "other"

\* the statement `const historyContext = chatHistory.filter(...).slice(-6).map(...)`
BuildHistoryContext ==
    /\ ev' = "context"
    /\ historyContext' = HistoryContext(chatHistory)
    /\ UNCHANGED <<sessionVars, uiVars, notification, userOps, micVars, transcribing,
                   planVars, storeVars, clearVars, peerFeed, toggling, delivered, chatHistory>>
    /\ UNCHANGED <<timerVars, speechVars, lastSession>>

ContextNext == BuildHistoryContext

ContextSpec == ContextInit /\ [][ContextNext]_vars

\* ------------------------------------------------------ the history feed
\* The server sends the collection, which holds no document, to the listener of a
\* second client signed in with the same identity (another tab of the same browser).
\* (A snapshot with documents makes that client replace its own in-memory log and
\* write nothing; it is not a step here.)
PeerSnapshotSent ==
    /\ ev' = "other"
    /\ user
    /\ peerFeed = NoSnapshot
    /\ Len(store) = 0
    /\ peerFeed' = TRUE
    /\ UNCHANGED <<sessionVars, uiVars, notification, userOps, micVars, transcribing,
                   planVars, storeVars, clearVars, historyContext, toggling, delivered,
                   chatHistory>>
    /\ UNCHANGED <<timerVars, speechVars, lastSession>>

\* The onSnapshot callback of the second client runs on the empty snapshot it was sent:
\* its addDoc of the welcome record goes to the same collection.
PeerSnapshot ==
    /\ ev' = "other"
    /\ peerFeed # NoSnapshot
    /\ peerFeed' = NoSnapshot
    /\ store' = AddDoc(store, WelcomeDoc(clock + 1))
    /\ clock' = clock + 1
    /\ UNCHANGED <<sessionVars, uiVars, notification, userOps, micVars, transcribing,
                   planVars, clearVars, historyContext, toggling, delivered, chatHistory>>
    /\ UNCHANGED <<timerVars, speechVars, lastSession>>

\* an update that sets displayLang on every card of the collection
UpdateDisplayLangOfAll(s, id, value) ==
    [i \in 1..Len(s) |-> IF s[i].type = "bot" THEN [s[i] EXCEPT !.displayLang = value] ELSE s[i]]

\* updateDoc(ref, {displayLang: value}) acknowledged
UpdateDisplayLang(s, id, value) ==
    [i \in 1..Len(s) |-> IF s[i].id = id THEN [s[i] EXCEPT !.displayLang = value] ELSE s[i]]

\* toggleCardLanguage(index), up to `await updateDoc`: the button of a bot card
ToggleCardLanguage(index) ==
    /\ ev' = "other"
    /\ index \in 1..Len(chatHistory)
    /\ chatHistory[index].type = "bot"
    /\ userOps < MaxUserOps
    /\ userOps' = userOps + 1
    /\ LET msg == chatHistory[index]
           newLang == IF msg.displayLang = "English" THEN "Japanese" ELSE "English"
       IN  IF user
           THEN /\ toggling' = toggling \cup {[id |-> msg.id, displayLang |-> newLang]}
                /\ UNCHANGED chatHistory
           ELSE /\ chatHistory' = [chatHistory EXCEPT ![index].displayLang = newLang]
                /\ UNCHANGED toggling
    /\ UNCHANGED <<sessionVars, uiVars, notification, micVars, transcribing, planVars,
                   storeVars, clearVars, historyContext, peerFeed, delivered>>
    /\ UNCHANGED <<timerVars, speechVars, lastSession>>

\* the updateDoc of a toggleCardLanguage call settled; it is rejected when the document
\* no longer exists, and the rejection is not handled
ToggleSettled(u, ok) ==
    /\ ev' = "other"
    /\ u \in toggling
    /\ ok => HasDoc(store, u.id)
    /\ toggling' = toggling \ {u}
    /\ store' = IF ok THEN UpdateDisplayLang(store, u.id, u.displayLang) ELSE store
    /\ UNCHANGED <<sessionVars, uiVars, notification, userOps, micVars, transcribing,
                   planVars, clock, clearVars, historyContext, peerFeed, delivered,
                   chatHistory>>
    /\ UNCHANGED <<timerVars, speechVars, lastSession>>

\* {chatHistory.length > 1 && (<button onClick={() => setShowClearModal(true)}>)} in
\* the input bar
OpenClearModal ==
    /\ ev' = "other"
    /\ InputBarRendered
    /\ Len(chatHistory) > 1
    /\ ~showClearModal
    /\ showClearModal' = TRUE
    /\ UNCHANGED <<sessionVars, targetLang, inputText, user, notification, userOps,
                   micVars, transcribing, planVars, storeVars, clearVars, feedVars,
                   chatHistory>>
    /\ UNCHANGED <<timerVars, speechVars, lastSession>>

\* the Cancel button of the modal
CancelClear ==
    /\ ev' = "other"
    /\ showClearModal
    /\ showClearModal' = FALSE
    /\ UNCHANGED <<sessionVars, targetLang, inputText, user, notification, userOps,
                   micVars, transcribing, planVars, storeVars, clearVars, feedVars,
                   chatHistory>>
    /\ UNCHANGED <<timerVars, speechVars, lastSession>>

\* the "Yes, Clear" button: handleClearHistory() up to `await getDocs`, then
\* setShowClearModal(false)
ConfirmClear ==
    /\ ev' = "other"
    /\ showClearModal
    /\ showClearModal' = FALSE
    /\ userOps < MaxUserOps
    /\ userOps' = userOps + 1
    /\ IF user
       THEN clears' = clears + 1 /\ clearReads' = clearReads + 1
       ELSE UNCHANGED <<clears, clearReads>>
    /\ UNCHANGED <<sessionVars, targetLang, inputText, user, notification, micVars,
                   transcribing, planVars, storeVars, deleting, feedVars, chatHistory>>
    /\ UNCHANGED <<timerVars, speechVars, lastSession>>

\* the store without the document id
RemoveDoc(s, id) == SelectSeq(s, LAMBDA d : d.id # id)

\* The listener has been called with the collection as it is shown now.  (The call
\* for a change is queued when the change is applied, ahead of the handling of any
\* answer that arrives later.)
Synced == delivered.any /\ delivered.docs = View

\* a handleClearHistory that starts no delete for the welcome record
GetDocsSettledSparingWelcome(ok) ==
    /\ ev' = "other"
    /\ clearReads > 0
    /\ Synced
    /\ clearReads' = clearReads - 1
    /\ deleting' = deleting \cup {View[i].id : i \in {k \in 1..Len(View) : ~IsWelcome(View[k])}}
    /\ chatHistory' = << >>
    /\ UNCHANGED <<sessionVars, uiVars, notification, userOps, micVars, transcribing,
                   planVars, storeVars, clears, feedVars>>
    /\ UNCHANGED <<timerVars, speechVars, lastSession>>

\* a handleClearHistory that empties the in-memory log whatever getDocs answers
GetDocsSettledEmptiesLog(ok) ==
    /\ ev' = "other"
    /\ clearReads > 0
    /\ Synced
    /\ clearReads' = clearReads - 1
    /\ deleting' = IF ok THEN deleting \cup {View[i].id : i \in 1..Len(View)} ELSE deleting
    /\ chatHistory' = << >>
    /\ UNCHANGED <<sessionVars, uiVars, notification, userOps, micVars, transcribing,
                   planVars, storeVars, clears, feedVars>>
    /\ UNCHANGED <<timerVars, speechVars, lastSession>>

\* handleClearHistory resumes after getDocs settled, the listener being up to date: a
\* deleteDoc is started for every document read (none is awaited) and the in-memory
\* log is emptied; a rejected getDocs ends the call with nothing done
GetDocsSettled(ok) ==
    /\ ev' = "other"
    /\ clearReads > 0
    /\ Synced
    /\ clearReads' = clearReads - 1
    /\ IF ok
       THEN /\ deleting' = deleting \cup {View[i].id : i \in 1..Len(View)}
            /\ chatHistory' = << >>
       ELSE UNCHANGED <<deleting, chatHistory>>
    /\ UNCHANGED <<sessionVars, uiVars, notification, userOps, micVars, transcribing,
                   planVars, storeVars, clears, feedVars>>
    /\ UNCHANGED <<timerVars, speechVars, lastSession>>

\* a deleteDoc of handleClearHistory settled, after the listener was shown the
\* collection without the document; a rejection is not handled
DeleteSettled(id, ok) ==
    /\ ev' = "other"
    /\ id \in Shown
    /\ deleting' = deleting \ {id}
    /\ store' = IF ok THEN RemoveDoc(store, id) ELSE store
    /\ UNCHANGED <<sessionVars, uiVars, notification, userOps, micVars, transcribing,
                   planVars, clock, clears, clearReads, feedVars, chatHistory>>
    /\ UNCHANGED <<timerVars, speechVars, lastSession>>

\* the identity is known, the listener is attached and nothing has been delivered yet;
\* the user has typed a question
FeedInit ==
    /\ Typed
    /\ user = TRUE
    /\ store = << >>
    /\ clock = 0
    /\ chatHistory = << >>
    /\ ev = "other"

\* The history of one identity: the listener of this client and of a second one, the
\* writes of a typed question and its plan, the card toggles and Clear History.  While
\* the modal is shown its overlay covers every other control.
FeedNext ==
    \/ \E upto \in {0} \cup deleting : Snapshot(upto)
    \/ PeerSnapshotSent
    \/ PeerSnapshot
    \/ ~showClearModal /\ HandleTextSubmit
    \/ ~showClearModal /\ \E index \in 1..MaxUserOps + MaxUserOps + 2 : ToggleCardLanguage(index)
    \/ \E u \in toggling, ok \in BOOLEAN : ToggleSettled(u, ok)
    \/ \E t \in TaskIds, ok \in BOOLEAN : UserAddSettled(t, ok)
    \/ \E t \in TaskIds, ok \in BOOLEAN, translation \in UserTranslations :
            PlanSettled(t, ok, translation)
    \/ \E t \in TaskIds, ok \in BOOLEAN : PatchSettled(t, ok)
    \/ \E t \in TaskIds, ok \in BOOLEAN : BotAddSettled(t, ok)
    \/ \E t \in TaskIds, ok \in BOOLEAN : ErrorAddSettled(t, ok)
    \/ OpenClearModal
    \/ CancelClear
    \/ ConfirmClear
    \/ GetDocsSettled(TRUE)
    \/ GetDocsSettled(FALSE)
    \/ \E id \in deleting, ok \in BOOLEAN : DeleteSettled(id, ok)

FeedSpec == FeedInit /\ [][FeedNext]_vars

\* The history when the store accepts every read and every delete of Clear History.
ClearOkNext ==
    \/ \E upto \in {0} \cup deleting : Snapshot(upto)
    \/ PeerSnapshotSent
    \/ PeerSnapshot
    \/ ~showClearModal /\ HandleTextSubmit
    \/ ~showClearModal /\ \E index \in 1..MaxUserOps + MaxUserOps + 2 : ToggleCardLanguage(index)
    \/ \E u \in toggling, ok \in BOOLEAN : ToggleSettled(u, ok)
    \/ \E t \in TaskIds, ok \in BOOLEAN : UserAddSettled(t, ok)
    \/ \E t \in TaskIds, ok \in BOOLEAN, translation \in UserTranslations :
            PlanSettled(t, ok, translation)
    \/ \E t \in TaskIds, ok \in BOOLEAN : PatchSettled(t, ok)
    \/ \E t \in TaskIds, ok \in BOOLEAN : BotAddSettled(t, ok)
    \/ \E t \in TaskIds, ok \in BOOLEAN : ErrorAddSettled(t, ok)
    \/ OpenClearModal
    \/ CancelClear
    \/ ConfirmClear
    \/ GetDocsSettled(TRUE)
    \/ \E id \in deleting : DeleteSettled(id, TRUE)

\* The listener is called when its view has changed, and the getDocs and every
\* deleteDoc of Clear History are answered.
ClearCallsReturn ==
    /\ WF_vars(\E upto \in {0} \cup deleting : Snapshot(upto))
    /\ WF_vars(GetDocsSettled(TRUE))
    /\ WF_vars(\E id \in deleting : DeleteSettled(id, TRUE))

ClearOkSpec == FeedInit /\ [][ClearOkNext]_vars /\ ClearCallsReturn

\* The listener is called when its view has changed, and the getDocs and every
\* deleteDoc of Clear History are answered, each with success or with failure.
FeedCallsReturn ==
    /\ WF_vars(\E upto \in {0} \cup deleting : Snapshot(upto))
    /\ WF_vars(\E ok \in BOOLEAN : GetDocsSettled(ok))
    /\ WF_vars(\E id \in deleting, ok \in BOOLEAN : DeleteSettled(id, ok))

\* The history of one client with Clear History (no second client, no language toggle),
\* the read and every delete succeeding or failing.
ClearNext ==
    \/ \E upto \in {0} \cup deleting : Snapshot(upto)
    \/ ~showClearModal /\ HandleTextSubmit
    \/ \E t \in TaskIds, ok \in BOOLEAN : UserAddSettled(t, ok)
    \/ \E t \in TaskIds, ok \in BOOLEAN, translation \in UserTranslations :
            PlanSettled(t, ok, translation)
    \/ \E t \in TaskIds, ok \in BOOLEAN : PatchSettled(t, ok)
    \/ \E t \in TaskIds, ok \in BOOLEAN : BotAddSettled(t, ok)
    \/ \E t \in TaskIds, ok \in BOOLEAN : ErrorAddSettled(t, ok)
    \/ OpenClearModal
    \/ CancelClear
    \/ ConfirmClear
    \/ GetDocsSettled(TRUE)
    \/ GetDocsSettled(FALSE)
    \/ \E id \in deleting, ok \in BOOLEAN : DeleteSettled(id, ok)

FairClearSpec == FeedInit /\ [][ClearNext]_vars /\ FeedCallsReturn

\* ------------------------------------------------------ fairness
\* Every external call returns: each pending transcription request, plan request and
\* history write of a call settles (with success or with failure).
ExternalCallsReturn ==
    /\ WF_vars(\E ok \in BOOLEAN, body \in TranscribeBodies : TranscribeSettled(ok, body))
    /\ \A t \in TaskIds :
          /\ WF_vars(\E ok \in BOOLEAN : UserAddSettled(t, ok))
          /\ WF_vars(\E ok \in BOOLEAN, translation \in UserTranslations :
                          PlanSettled(t, ok, translation))
          /\ WF_vars(\E ok \in BOOLEAN : PatchSettled(t, ok))
          /\ WF_vars(\E ok \in BOOLEAN : BotAddSettled(t, ok))
          /\ WF_vars(\E ok \in BOOLEAN : ErrorAddSettled(t, ok))

FairSpec == Spec /\ ExternalCallsReturn

\* ------------------------------------------------------ the sanitizer on raw records
\* A value that doc.data() can hold, with its JavaScript type: a missing property reads as
\* undefined, and a record (a document, a map field) is an object with named properties.
JsUndefined == [k |-> "undefined"]
JsNull == [k |-> "null"]
JsString(s) == [k |-> "string", s |-> s]
JsNumber(n) == [k |-> "number", n |-> n]
JsObject(f) == [k |-> "object", f |-> f]
JsArray(items) == [k |-> "array", items |-> items]

\* the error raised by reading a property of null or undefined
TypeError == [k |-> "TypeError"]

Nullish(val) == val.k \in {"undefined", "null"}

\* val.name without optional chaining: a TypeError on null and undefined
Prop(val, name) ==
    IF Nullish(val) THEN TypeError
    ELSE IF val.k = "object" /\ name \in DOMAIN val.f THEN val.f[name]
    ELSE JsUndefined

\* val?.name
OptProp(val, name) == IF Nullish(val) THEN JsUndefined ELSE Prop(val, name)

\* the operand of || is kept when it is truthy
Truthy(val) ==
    /\ ~Nullish(val)
    /\ val.k = "string" => val # JsString("")
    /\ val.k = "number" => val.n # 0

\* safeString(val)
SafeString(val) ==
    IF Nullish(val) THEN JsString("")
    ELSE IF val.k = "string" THEN val
    ELSE IF val.k \in {"object", "array"}
    THEN IF Truthy(Prop(val, "en")) THEN Prop(val, "en")
         ELSE IF Truthy(Prop(val, "ja")) THEN Prop(val, "ja")
         ELSE [k |-> "string", json |-> Stringify(val)]
    ELSE [k |-> "string", of |-> val.n]

\* a map callback that keeps whatever coords the entry holds
SafeTimelineItemKeepingCoords(t) ==
    IF Prop(t, "text") = TypeError THEN TypeError
    ELSE JsObject([text |-> SafeString(Prop(t, "text")),
                   coords |-> Prop(t, "coords"),
                   name |-> SafeString(Prop(t, "name"))])

\* t => ({ text: safeString(t.text), coords: ..., name: safeString(t.name) })
SafeTimelineItem(t) ==
    IF Prop(t, "text") = TypeError THEN TypeError
    ELSE JsObject([text |-> SafeString(Prop(t, "text")),
                   coords |-> IF Prop(t, "coords").k = "array" /\ Len(Prop(t, "coords").items) = 2
                              THEN Prop(t, "coords") ELSE JsNull,
                   name |-> SafeString(Prop(t, "name"))])

\* Array.isArray(x?.timeline_data) ? x.timeline_data.map(...) : []
SafeTimeline(localized) ==
    LET timeline_data == OptProp(localized, "timeline_data") IN
    IF timeline_data.k # "array" THEN JsArray(<< >>)
    ELSE IF \E i \in 1..Len(timeline_data.items) : SafeTimelineItem(timeline_data.items[i]) = TypeError
    THEN TypeError
    ELSE JsArray([i \in 1..Len(timeline_data.items) |-> SafeTimelineItem(timeline_data.items[i])])

\* { title: safeString(x?.title), report: safeString(x?.report), timeline_data: ... }
SafeRawLocalized(localized) ==
    IF SafeTimeline(localized) = TypeError THEN TypeError
    ELSE JsObject([title |-> SafeString(OptProp(localized, "title")),
                   report |-> SafeString(OptProp(localized, "report")),
                   timeline_data |-> SafeTimeline(localized)])

\* { ...val, with the properties of over }: the spread of an object copies its
\* properties, the spread of null, undefined or a number copies nothing
Spread(val, over) ==
    LET own == IF val.k = "object" THEN DOMAIN val.f ELSE {} IN
    JsObject([name \in own \cup DOMAIN over |->
                 IF name \in DOMAIN over THEN over[name] ELSE val.f[name]])

\* The snapshot mapping applied to one document: doc => { ... } of snapshot.docs.map,
\* with raw = doc.data().  The result is the ChatMessage, or the TypeError raised.
SanitizeRecord(id, raw) ==
    IF Prop(raw, "type") = JsString("user")
    THEN Spread(raw, [id |-> JsNumber(id),
                      main |-> SafeString(Prop(raw, "main")),
                      sub |-> SafeString(Prop(raw, "sub"))])
    ELSE LET data == Prop(raw, "data")
             rawContent == IF Truthy(OptProp(data, "content")) THEN OptProp(data, "content")
                           ELSE JsObject(<< >>)
             en == SafeRawLocalized(Prop(rawContent, "en"))
             ja == SafeRawLocalized(Prop(rawContent, "ja"))
         IN  IF en = TypeError \/ ja = TypeError THEN TypeError
             ELSE Spread(raw, [id |-> JsNumber(id),
                               data |-> Spread(data, [city |-> SafeString(OptProp(data, "city")),
                                                      content |-> JsObject([en |-> en, ja |-> ja])])])

\* Raw records: every level of a bot record and the leaves of a user record are drawn
\* from well-typed, missing, null and wrong-typed values.
Leaves ==
    {JsUndefined, JsNull, JsString("Kyoto"), JsNumber(7), JsObject([en |-> JsString("Kyoto")]),
     JsObject([en |-> JsNumber(7)]), JsObject([ja |-> JsObject([en |-> JsString("Kyoto")])]),
     JsObject([name |-> JsString("Kyoto")])}

TimelineItems ==
    {JsNull, JsString("Gion"), JsNumber(7), JsObject(<< >>),
     JsObject([text |-> JsString("Gion"), coords |-> JsArray(<<JsNumber(35), JsNumber(135)>>),
               name |-> JsString("Gion")]),
     JsObject([text |-> JsNumber(7), coords |-> JsString("35,135"), name |-> JsNull]),
     JsObject([text |-> JsString("Gion"), coords |-> JsArray(<<JsNumber(35)>>)])}

Timelines ==
    {JsUndefined, JsNull, JsString("Gion")}
        \cup {JsArray(items) : items \in UNION {[1..n -> TimelineItems] : n \in 0..MaxTimeline}}

Localizeds ==
    {JsUndefined, JsNull, JsNumber(7)}
        \cup {JsObject([title |-> JsString("Kyoto"), report |-> JsString("Mild."),
                        timeline_data |-> timeline_data]) : timeline_data \in Timelines}
        \cup {JsObject([title |-> leaf, timeline_data |-> JsArray(<< >>)]) : leaf \in Leaves}

Contents ==
    {JsUndefined, JsNull, JsString("Kyoto"), JsNumber(7)}
        \cup {JsObject([en |-> en, ja |-> JsNull]) : en \in Localizeds}
        \cup {JsObject([ja |-> ja]) : ja \in Localizeds}

Datas ==
    {JsUndefined, JsNull, JsNumber(7)}
        \cup {JsObject([city |-> JsString("Kyoto"), content |-> content]) : content \in Contents}
        \cup {JsObject([city |-> leaf]) : leaf \in Leaves}

RawRecords ==
    {JsObject([type |-> JsString("user"), main |-> main, sub |-> sub]) :
        main \in Leaves, sub \in Leaves}
        \cup {JsObject([type |-> JsString("bot"), data |-> data]) : data \in Datas}
        \cup {JsObject([type |-> JsString("bot"), displayLang |-> displayLang,
                        data |-> JsObject([city |-> JsString("Kyoto")])]) :
                 displayLang \in {JsString("English"), JsString("Japanese"), JsString("French"),
                                  JsNull}}
        \cup {JsObject([type |-> type]) : type \in Leaves}

\* A signed-in client whose history holds one raw record, the listener not called yet.
SanitizeInit ==
    /\ \E raw \in RawRecords : store = <<raw>>
    /\ user = TRUE
    /\ clock = 1
    /\ Fresh
    /\ chatHistory = << >>
    /\ ev = "other"

\* The onSnapshot callback on raw records: snapshot.docs.map(...) is evaluated first,
\* and an error raised in it ends the callback before setChatHistory.
RawSnapshot ==
    LET history == [i \in 1..Len(store) |-> SanitizeRecord(i, store[i])] IN
    /\ ~delivered.any
    /\ delivered' = [any |-> TRUE, docs |-> store]
    /\ IF \E i \in 1..Len(history) : history[i] = TypeError
       THEN ev' = "TypeError" /\ UNCHANGED chatHistory
       ELSE ev' = "other" /\ chatHistory' = history
    /\ UNCHANGED <<store, clock, sessionVars, uiVars, notification, userOps, micVars,
                   transcribing, planVars, clearVars, historyContext, peerFeed, toggling>>
    /\ UNCHANGED <<timerVars, speechVars, lastSession>>

SanitizeNext == RawSnapshot

SanitizeSpec == SanitizeInit /\ [][SanitizeNext]_vars

\* ------------------------------------------------------ the notification slot alone
\* the delay of the setTimeout of showNotification, in seconds (3000 ms)
NotificationSeconds == 3

\* the messages showNotification is called with
Messages == {MicDenied, TranscriptionFailed, PlanningFailed}

\* showNotification(message), with its timer: setNotification({ message, type }) and
\* setTimeout(() => setNotification(null), 3000)
ShowNotificationTimed(message) ==
    /\ ev' = "other"
    /\ notification' = message
    /\ shownAt' = now
    /\ timers' = timers \cup {now + NotificationSeconds}
    /\ UNCHANGED <<sessionVars, uiVars, userOps, micVars, transcribing, planVars,
                   storeVars, clearVars, feedVars, chatHistory, lastSession, now, speechVars>>

\* a setTimeout callback of showNotification runs, not before it is due:
\* setNotification(null)
TimerFires(due) ==
    /\ ev' = "other"
    /\ due \in timers
    /\ due <= now
    /\ timers' = timers \ {due}
    /\ notification' = Null
    /\ UNCHANGED <<sessionVars, uiVars, userOps, micVars, transcribing, planVars,
                   storeVars, clearVars, feedVars, chatHistory, lastSession, now, shownAt, speechVars>>

\* a second passes; a timer that is due runs before the next second starts
Tick ==
    /\ ev' = "other"
    /\ now < MaxTime
    /\ \A due \in timers : due > now
    /\ now' = now + 1
    /\ UNCHANGED <<sessionVars, uiVars, userOps, micVars, transcribing, planVars,
                   storeVars, clearVars, feedVars, chatHistory, lastSession, notification, timers,
                   shownAt, speechVars>>

NotifyInit ==
    /\ Fresh
    /\ user = FALSE
    /\ store = << >>
    /\ clock = 0
    /\ chatHistory = << >>
    /\ ev = "other"

NotifyNext ==
    \/ \E message \in Messages : ShowNotificationTimed(message)
    \/ \E due \in timers : TimerFires(due)
    \/ Tick

NotifySpec == NotifyInit /\ [][NotifyNext]_vars

\* ------------------------------------------------------ speech output alone
\* the bot cards of the log: each renders a Listen / Stop button bound to toggleAudio
Cards == {idx \in 1..Len(chatHistory) : chatHistory[idx].type = "bot"}

\* a toggleAudio that does not call window.speechSynthesis.cancel()
ToggleAudioWithoutCancel(idx, endEvent) ==
    /\ ev' = "toggleAudio"
    /\ idx \in Cards
    /\ played' = idx
    /\ IF playingIndex = idx
       THEN playingIndex' = NoIndex /\ UNCHANGED audible
       ELSE playingIndex' = idx /\ audible' = audible \cup {idx}
    /\ UNCHANGED <<sessionVars, uiVars, notification, userOps, micVars, transcribing,
                   planVars, storeVars, clearVars, feedVars, chatHistory, lastSession, timerVars,
                   staleEnds>>

\* toggleAudio(text, lang, idx): cancel() cuts off whatever is spoken; on the card that
\* is playing it clears playingIndex and returns, on another card it speaks a new
\* utterance and sets playingIndex.  Whether cancel() delivers an end event to the
\* utterance it cuts off is left to the browser (endEvent).
ToggleAudio(idx, endEvent) ==
    /\ ev' = "toggleAudio"
    /\ idx \in Cards
    /\ played' = idx
    /\ staleEnds' = IF audible # {} /\ endEvent THEN 1 ELSE staleEnds
    /\ IF playingIndex = idx
       THEN playingIndex' = NoIndex /\ audible' = {}
       ELSE playingIndex' = idx /\ audible' = {idx}
    /\ UNCHANGED <<sessionVars, uiVars, notification, userOps, micVars, transcribing,
                   planVars, storeVars, clearVars, feedVars, chatHistory, lastSession, timerVars>>

\* an utterance that ends and leaves playingIndex as it is
UtteranceEndsKeepingIndex(idx) ==
    /\ ev' = "ended"
    /\ idx \in audible
    /\ audible' = audible \ {idx}
    /\ UNCHANGED <<sessionVars, uiVars, notification, userOps, micVars, transcribing,
                   planVars, storeVars, clearVars, feedVars, chatHistory, lastSession, timerVars,
                   playingIndex, staleEnds, played>>

\* the utterance of a card is spoken to its end: utterance.onend = () => setPlayingIndex(null)
UtteranceEnds(idx) ==
    /\ ev' = "ended"
    /\ idx \in audible
    /\ audible' = audible \ {idx}
    /\ playingIndex' = NoIndex
    /\ UNCHANGED <<sessionVars, uiVars, notification, userOps, micVars, transcribing,
                   planVars, storeVars, clearVars, feedVars, chatHistory, lastSession, timerVars,
                   staleEnds, played>>

\* the end event of an utterance that cancel() cut off is delivered: its onend runs
CutOffEnds ==
    /\ ev' = "other"
    /\ staleEnds = 1
    /\ staleEnds' = 0
    /\ playingIndex' = NoIndex
    /\ UNCHANGED <<sessionVars, uiVars, notification, userOps, micVars, transcribing,
                   planVars, storeVars, clearVars, feedVars, chatHistory, lastSession, timerVars,
                   audible, played>>

\* a log of up to MaxCards records is shown
SpeechInit ==
    /\ Fresh
    /\ user = TRUE
    /\ store = << >>
    /\ clock = 0
    /\ \E n \in 1..MaxCards : \E kinds \in [1..n -> LogKinds] : chatHistory = Log(kinds)
    /\ ev = "other"

SpeechNext ==
    \/ \E idx \in Cards, endEvent \in BOOLEAN : ToggleAudio(idx, endEvent)
    \/ \E idx \in Cards : UtteranceEnds(idx)
    \/ CutOffEnds

SpeechSpec == SpeechInit /\ [][SpeechNext]_vars

\* ------------------------------------------------------ capture alone
\* The microphone button, the captures it starts and stops, their analysis graphs
\* and animate loops, and the transcription that follows a stop (Retry leads back
\* to Idle from the verification popup).
MicNext ==
    \/ HandleMicClick
    \/ \E outcome \in {"micDenied", "micRecorderFail", "micOk"} : GetUserMediaSettled(outcome)
    \/ \E r \in Recs : AnimationFrame(r)
    \/ \E r \in Recs, size \in 0..1 : RecorderStopped(r, size)
    \/ \E ok \in BOOLEAN, body \in TranscribeBodies : TranscribeSettled(ok, body)
    \/ HandleRetry
    \/ NotificationTimeout

MicSpec == Init /\ [][MicNext]_vars

\* ------------------------------------------------------ a voice session beside the feed
\* A signed-in client: the listener (with a second client whose welcome record can
\* arrive at any time), one voice session after another from the mic button to the
\* plan, and the writes of the plan call.
VoiceFeedInit ==
    /\ Fresh
    /\ user = TRUE
    /\ store = << >>
    /\ clock = 0
    /\ chatHistory = << >>
    /\ ev = "other"

VoiceFeedNext ==
    \/ Snapshot(0)
    \/ PeerSnapshotSent
    \/ PeerSnapshot
    \/ HandleMicClick
    \/ \E outcome \in {"micDenied", "micRecorderFail", "micOk"} : GetUserMediaSettled(outcome)
    \/ \E r \in Recs, size \in 0..1 : RecorderStopped(r, size)
    \/ \E ok \in BOOLEAN, body \in TranscribeBodies : TranscribeSettled(ok, body)
    \/ HandleRetry
    \/ HandleConfirmVoice
    \/ \E t \in TaskIds, ok \in BOOLEAN : UserAddSettled(t, ok)

VoiceFeedSpec == VoiceFeedInit /\ [][VoiceFeedNext]_vars

\* ------------------------------------------------------ reloading the page
\* The browser reloads the page while no call is in flight: the module is evaluated
\* and the component mounted again, so every useState and useRef is back at its initial
\* value, the captures, timers and utterances of the old page are gone, and Effect 1
\* signs in again.  getAuth(app) is called without a persistence setting: whether the
\* browser still holds the anonymous identity of the old page (sameIdentity), and so
\* whether the new page reads the same users/<uid>/chat_history collection or the empty
\* collection of a new identity, is left to the browser's storage.
Reload(sameIdentity) ==
    /\ ev' = "other"
    /\ clock < MaxLog
    /\ acquiring = 0 /\ transcribing = 0
    /\ \A t \in TaskIds : tasks[t].phase \in {"none", "done"}
    /\ deleting = {} /\ clearReads = 0 /\ toggling = {} /\ peerFeed = NoSnapshot
    /\ lastSession' = {chatHistory[i].id : i \in {j \in 1..Len(chatHistory) :
                                                    ~IsWelcome(chatHistory[j])}}
    /\ appState' = "idle"
    /\ targetLang' = "English"
    /\ transcriptData' = EmptyTranscript
    /\ inputText' = ""
    /\ user' = FALSE
    /\ notification' = Null
    /\ showClearModal' = FALSE
    /\ recState' = [r \in Recs |-> "none"]
    /\ streamOpen' = [r \in Recs |-> FALSE]
    /\ mediaRecorderRef' = 0
    /\ audioChunks' = 0
    /\ audioContextRef' = 0
    /\ ctxOpen' = [r \in Recs |-> FALSE]
    /\ animating' = [r \in Recs |-> FALSE]
    /\ animationFrameRef' = 0
    /\ mimeType' = [r \in Recs |-> NoType]
    /\ tasks' = [t \in TaskIds |-> NoTask]
    /\ nextTask' = 0
    /\ chatHistory' = << >>
    /\ historyContext' = << >>
    /\ delivered' = NothingDelivered
    /\ timers' = {} /\ shownAt' = 0
    /\ playingIndex' = NoIndex /\ audible' = {} /\ staleEnds' = 0 /\ played' = NoIndex
    /\ store' = IF sameIdentity THEN store ELSE << >>
    /\ UNCHANGED <<userOps, acquiring, transcribing, clock, clearVars, peerFeed, toggling,
                   now, supported>>

\* One page after another on the same browser: a typed question and its plan, the
\* listener, and reloads.
ReloadNext ==
    \/ AuthStateChanged
    \/ Snapshot(0)
    \/ \E text \in InputTexts : TypeText(text)
    \/ HandleTextSubmit
    \/ \E t \in TaskIds, ok \in BOOLEAN : UserAddSettled(t, ok)
    \/ \E t \in TaskIds, ok \in BOOLEAN, translation \in UserTranslations :
            PlanSettled(t, ok, translation)
    \/ \E t \in TaskIds, ok \in BOOLEAN : PatchSettled(t, ok)
    \/ \E t \in TaskIds, ok \in BOOLEAN : BotAddSettled(t, ok)
    \/ \E t \in TaskIds, ok \in BOOLEAN : ErrorAddSettled(t, ok)
    \/ \E sameIdentity \in BOOLEAN : Reload(sameIdentity)

ReloadSpec == Init /\ [][ReloadNext]_vars

\* ------------------------------------------------------ capture in any browser
\* The capture handlers in a browser that supports any of the container types.
ContainerInit == \E platform \in SUBSET ContainerTypes : InitOn(platform)

ContainerSpec == ContainerInit /\ [][MicNext]_vars

\* ============================================================ properties
\* the captures in progress: a recorder recording from a live stream
Captures == {r \in Recs : recState[r] = "recording" /\ streamOpen[r]}

\* the requests to the transcription and plan services in flight
InFlight == transcribing + Cardinality({t \in TaskIds : tasks[t].phase = "request"})

\* C1: outside Idle no step starts a capture (no startRecording call), accepts a text
\* submit (no executePlanGeneration call for text, the input box keeps its text), and
\* a recorder is asked to stop only when the session is Recording.
C1_NoStartOrSubmitOutsideIdle ==
    [][ /\ appState # "idle" =>
              /\ acquiring' <= acquiring
              /\ ev' # "submit"
              /\ inputText' = inputText
              /\ \A t \in TaskIds :
                    tasks[t].phase = "none" /\ tasks'[t].phase # "none" => tasks'[t].isVoice
        /\ \A r \in Recs :
              recState[r] = "recording" /\ recState'[r] = "stopping" => appState = "recording"
      ]_vars

\* C1 witness: the session is busy while the user has a question typed and could still
\* submit it (the Send button is shown and disabled)
C1_Witness ==
    /\ appState \in {"recording", "transcribing", "planning"}
    /\ Trim(inputText) # ""
    /\ user
    /\ userOps < MaxUserOps

\* C2: at most one capture and at most one request in flight at any time.
C2_AtMostOneActiveSession ==
    /\ Cardinality(Captures) <= 1
    /\ InFlight <= 1

\* C3: the stop event of a recording whose chunks add up to zero bytes takes the
\* session to Idle, sends no transcription request and shows no notification.
C3_EmptyCaptureResetsSilently ==
    [][ \A r \in Recs :
          recState[r] = "stopping" /\ recState'[r] = "inactive" /\ audioChunks' = 0 =>
              /\ appState' = "idle"
              /\ transcribing' = transcribing
              /\ notification' = notification
      ]_vars

\* C3 witness: the only recording made has stopped with zero bytes and the session is
\* Idle with nothing requested and nothing notified
C3_Witness ==
    /\ \E r \in Recs : recState[r] = "inactive" /\ \A q \in Recs \ {r} : recState[q] = "none"
    /\ audioChunks = 0
    /\ acquiring = 0
    /\ appState = "idle"
    /\ transcribing = 0
    /\ notification = Null
    /\ nextTask = 0

\* C4: the transcript pair has both fields empty or both non-empty, and both are
\* non-empty in Verification.
C4_TranscriptPairAtomic ==
    /\ (transcriptData.ja = "") <=> (transcriptData.en = "")
    /\ appState = "verification" => transcriptData.ja # "" /\ transcriptData.en # ""

\* C5: the step that handles a failed transcription request leaves the session Idle
\* with the "Transcription failed." notification, and changes neither the transcript
\* pair nor the history, and starts no plan.
C5_TranscriptionFailure ==
    [][ ev' = "transcribeFailed" =>
          /\ appState' = "idle"
          /\ notification' = TranscriptionFailed
          /\ transcriptData' = transcriptData
          /\ store' = store
          /\ tasks' = tasks
      ]_vars

\* C5 witness: a transcription request has just failed
C5_Witness ==
    /\ ev = "transcribeFailed"
    /\ appState = "idle"
    /\ notification = TranscriptionFailed
    /\ transcriptData = EmptyTranscript
    /\ store = << >>

\* C6: the user message written for a confirmed voice transcript has main = the
\* transcript in the display language of the confirmation, sub = the transcript in the
\* other language, and no voice message of the history carries the placeholder.
C6_VoiceMessageCarriesBothLanguages ==
    [][ /\ \A t \in TaskIds :
              tasks[t].isVoice /\ tasks[t].phase = "addUser" /\ tasks'[t].phase = "request" =>
                  /\ store'[Len(store')].main = MainText(tasks[t].lang, tasks[t].pair)
                  /\ store'[Len(store')].sub = SubText(tasks[t].lang, tasks[t].pair)
        /\ \A i \in 1..Len(store') :
              store'[i].type = "user" /\ store'[i].isVoice => store'[i].sub # "Translating..."
      ]_vars

\* the last record of a history
Last(s) == s[Len(s)]

\* the step appends exactly one record to the store and changes no other
AppendsOne == Len(store') = Len(store) + 1 /\ SubSeq(store', 1, Len(store)) = store

\* C7: a text submit accepted with an identity happens in Idle and takes the session to
\* Planning with the write of UserMessage(main = text, sub = "Translating...",
\* isVoice = false) issued; the acknowledged write puts exactly that record at the end
\* of the history, and the plan request of a call is sent only in the step in which
\* its user message was acknowledged.
C7_TextSubmitAppendsBeforeRequest ==
    [][ /\ ev' = "submit" =>
              /\ appState = "idle" /\ Trim(inputText) # ""
              /\ appState' = "planning"
              /\ store' = store
              /\ \E t \in TaskIds :
                    /\ tasks[t].phase = "none"
                    /\ tasks'[t].phase = "addUser"
                    /\ tasks'[t].textInput = inputText
                    /\ ~tasks'[t].isVoice
                    /\ \A u \in TaskIds \ {t} : tasks'[u] = tasks[u]
        /\ \A t \in TaskIds :
              tasks[t].phase = "addUser" /\ tasks'[t].phase # "addUser" /\ ~tasks[t].isVoice =>
                  \/ /\ tasks'[t].phase = "request"
                     /\ AppendsOne
                     /\ Last(store').type = "user"
                     /\ Last(store').main = tasks[t].textInput
                     /\ Last(store').sub = "Translating..."
                     /\ Last(store').isVoice = FALSE
                     /\ tasks'[t].userDocRef = Last(store').id
                  \/ /\ tasks'[t].phase = "done"
                     /\ store' = store
        /\ \A t \in TaskIds :
              tasks[t].phase \notin Requested /\ tasks'[t].phase \in Requested =>
                  tasks[t].phase = "addUser" /\ tasks'[t].phase = "request" /\ AppendsOne
      ]_vars

\* C7 witness: the plan request of a typed question is in flight, the session is
\* Planning and the history ends with the question and its placeholder
C7_Witness ==
    /\ appState = "planning"
    /\ \E t \in TaskIds :
          /\ tasks[t].phase = "request" /\ ~tasks[t].isVoice
          /\ tasks[t].textInput = "What should I wear?"
          /\ Len(store) > 0
          /\ Last(store).id = tasks[t].userDocRef
          /\ Last(store).main = "What should I wear?"
          /\ Last(store).sub = Placeholder
          /\ ~Last(store).isVoice

\* C8: a call whose plan request succeeded goes on to write the plan, after the patch of
\* its user message exactly when the call came from text; the acknowledged patch
\* replaces only the placeholder sub of that call's own user message by the returned
\* translation; a record of the history changes in no other step, so none is patched
\* twice and a voice message never; the acknowledged write of the plan appends the
\* returned plan as a bot message and leaves the session Idle.
C8_PlanSuccessRecorded ==
    [][ /\ \A t \in TaskIds :
              tasks[t].phase = "request" /\ tasks'[t].phase \in {"patch", "addBot"} =>
                  /\ tasks'[t].phase = IF tasks[t].isVoice THEN "addBot" ELSE "patch"
                  /\ store' = store
        /\ \A t \in TaskIds :
              tasks[t].phase = "patch" /\ tasks'[t].phase # "patch" =>
                  /\ tasks'[t].phase = "addBot"
                  /\ \E i \in 1..Len(store) :
                        /\ store[i].id = tasks[t].userDocRef
                        /\ store[i].sub = "Translating..."
                        /\ store'[i].sub = tasks[t].translation
        /\ \A i \in 1..Len(store) :
              store'[i] # store[i] =>
                  /\ store[i].type = "user" /\ ~store[i].isVoice
                  /\ store[i].sub = "Translating..."
                  /\ \E t \in TaskIds :
                        /\ tasks[t].phase = "patch" /\ tasks'[t].phase = "addBot"
                        /\ tasks[t].userDocRef = store[i].id
                        /\ store'[i] = [store[i] EXCEPT !.sub = tasks[t].translation]
                  /\ \A j \in 1..Len(store) \ {i} : store'[j] = store[j]
        /\ \A t \in TaskIds :
              tasks[t].phase = "addBot" /\ tasks'[t].phase = "done" =>
                  /\ AppendsOne
                  /\ Last(store').type = "bot"
                  /\ Last(store').data = PlanData
                  /\ Last(store').displayLang = tasks[t].lang
                  /\ appState' = "idle"
      ]_vars

\* C9: the step that handles a failed plan request shows "Planning failed. Check
\* console.", leaves the session Idle and issues the write of the error record; the
\* acknowledged write appends a bot message of category "System" with a title and a
\* report in en and in ja and empty timelines.
C9_PlanFailure ==
    [][ \A t \in TaskIds :
          /\ tasks[t].phase = "request" /\ tasks'[t].phase \notin {"request", "patch", "addBot"} =>
                /\ tasks'[t].phase = "addError"
                /\ notification' = PlanningFailed
                /\ appState' = "idle"
                /\ store' = store
          /\ tasks[t].phase = "addError" /\ tasks'[t].phase # "addError" =>
                /\ tasks'[t].phase = "done"
                /\ appState' = appState
                /\ \/ store' = store
                   \/ /\ AppendsOne
                      /\ Last(store').type = "bot"
                      /\ ~Last(store').isWelcome
                      /\ Last(store').data.category = "System"
                      /\ \A l \in {"en", "ja"} :
                            /\ Last(store').data.content[l].title # ""
                            /\ Last(store').data.content[l].report # ""
                            /\ Last(store').data.content[l].timeline_data = << >>
      ]_vars

\* C9 witness: a plan request has failed: the session is Idle, the notification is shown
\* and the history ends with the error record
C9_Witness ==
    /\ appState = "idle"
    /\ notification = PlanningFailed
    /\ Len(store) > 1
    /\ Last(store).type = "bot"
    /\ Last(store).data.category = "System"
    /\ Last(store).data.content.en.timeline_data = << >>
    /\ \A t \in TaskIds : tasks[t].phase \in {"none", "done"}

C11_EveryFailureNotifiesAndIdles ==
    [][ /\ (acquiring' < acquiring /\ \A r \in Recs : recState'[r] = "recording" => recState[r] = "recording") =>
              notification' # Null /\ appState' = "idle"
        /\ ev' = "transcribeFailed" =>
              notification' # Null /\ appState' = "idle"
        /\ \A t \in TaskIds :
              /\ tasks[t].phase \in {"request", "patch", "addBot"} /\ tasks'[t].phase = "addError" =>
                    notification' # Null /\ appState' = "idle"
              /\ tasks[t].phase = "addUser" /\ tasks'[t].phase = "done" =>
                    notification' # Null /\ appState' = "idle"
      ]_vars

\* what a session is made of: the state shown, the captures, the requests and the calls
SessionProgress == <<appState, acquiring, recState, transcribing, tasks>>

\* a step of the session (a control the user can use, or a pending call returning)
SessionStep == Next /\ SessionProgress' # SessionProgress

\* a session in Transcribing gets to Verification or Idle
TranscribingLeadsOut == (appState = "transcribing") ~> (appState \in {"verification", "idle"})

\* a session in Planning gets to Idle
PlanningLeadsToIdle == (appState = "planning") ~> (appState = "idle")

\* C12: when every external call returns, a session in Transcribing eventually reaches
\* Verification or Idle, a session in Planning eventually reaches Idle, and in no
\* reachable state outside Idle is the session stuck with no step left to take.
C12_SessionsReturnToIdle ==
    /\ TranscribingLeadsOut
    /\ PlanningLeadsToIdle
    /\ [](appState # "idle" => ENABLED SessionStep)

\* the positions of the in-memory log that hold a record other than the welcome record
NonWelcome == {i \in 1..Len(chatHistory) :
                  ~(chatHistory[i].type = "bot" /\ chatHistory[i].isWelcome)}

\* how many non-welcome records the log has from position i on
FromEnd(i) == Cardinality({j \in NonWelcome : j >= i})

\* C13: the context window built from an in-memory log has min(6, number of non-welcome
\* records) entries, never more than 6; its entries are the last non-welcome records of
\* the log in log order, a user message as role "user" with its main text and any other
\* record as role "assistant" with its serialized data; no entry is the welcome record.
C13_ContextIsLastSixNonWelcome ==
    ev = "context" =>
        LET n == Len(historyContext) IN
        /\ n <= 6
        /\ n = IF Cardinality(NonWelcome) < 6 THEN Cardinality(NonWelcome) ELSE 6
        /\ \A i \in NonWelcome :
              FromEnd(i) <= 6 =>
                  LET e == historyContext[n - FromEnd(i) + 1] IN
                  IF chatHistory[i].type = "user"
                  THEN e.role = "user" /\ e.content = chatHistory[i].main
                  ELSE e.role = "assistant" /\ e.content = <<"json", chatHistory[i].data>>
        /\ \A k \in 1..n :
              historyContext[k].role = "assistant" =>
                  historyContext[k].content[2].city # "System"

\* C13 witness: a window of 6 cut from a log with more than 6 non-welcome records and a
\* welcome record among the last 6 records
C13_Witness ==
    /\ ev = "context"
    /\ Cardinality(NonWelcome) > 6
    /\ \E i \in 1..Len(chatHistory) : i \notin NonWelcome /\ i > Len(chatHistory) - 6
    /\ Len(historyContext) = 6

\* the welcome records of the collection
Welcomes == {i \in 1..Len(store) : store[i].type = "bot" /\ store[i].isWelcome}

\* C14: whatever snapshots are delivered to this client and to a second client of the
\* same identity, the collection never holds more than one welcome record.
C14_OneWelcomeRecord == Cardinality(Welcomes) <= 1

\* C15: a step in which the onSnapshot callback runs leaves the in-memory log equal to
\* the sanitized image of the snapshot it was called with (the empty log for an empty
\* snapshot) and leaves every record of the collection as it was.
C15_LogIsSanitizedSnapshot ==
    [][ delivered' # delivered =>
          /\ chatHistory' = SanitizeAll(delivered'.docs)
          /\ SubSeq(store', 1, Len(store)) = store
      ]_vars

\* C16: the in-memory log is in ascending order of createdAt: of two records the one
\* with the earlier createdAt comes first, and the user message of a question comes
\* before the bot message (plan or error record) written for it.
C16_LogOrderedByCreatedAt ==
    /\ \A i, j \in 1..Len(chatHistory) :
          chatHistory[i].createdAt < chatHistory[j].createdAt => i < j
    /\ \A i, j \in 1..Len(chatHistory) :
          /\ chatHistory[i].type = "user"
          /\ chatHistory[j].type = "bot" /\ ~chatHistory[j].isWelcome
          => i < j /\ chatHistory[i].createdAt < chatHistory[j].createdAt

\* C16 witness: the log shows the welcome record, the question and its plan, in the
\* order in which they were written
C16_Witness ==
    /\ Len(chatHistory) = 3
    /\ chatHistory[1].type = "bot" /\ chatHistory[1].isWelcome
    /\ chatHistory[2].type = "user"
    /\ chatHistory[3].type = "bot" /\ chatHistory[3].data.city = "Tokyo"
    /\ chatHistory[1].createdAt < chatHistory[2].createdAt
    /\ chatHistory[2].createdAt < chatHistory[3].createdAt

\* the ids of a collection in its order, without those outside keep
IdsIn(s, keep) ==
    LET kept == SelectSeq(s, LAMBDA d : d.id \in keep)
    IN  [k \in 1..Len(kept) |-> kept[k].id]

\* C17: a record of the collection changes only in the step in which a patch of it is
\* acknowledged: the translation patch of the call that wrote it changes its sub and
\* nothing else, a toggleCardLanguage patch of it changes its displayLang and nothing
\* else; id, createdAt, the other fields, its position and every other record stay as
\* they were, and the records that remain keep their order in every step.
C17_PatchChangesOneField ==
    [][ /\ \A i \in 1..Len(store), j \in 1..Len(store') :
              store[i].id = store'[j].id /\ store[i] # store'[j] =>
                  /\ i = j /\ Len(store') = Len(store)
                  /\ \A k \in 1..Len(store) \ {i} : store'[k] = store[k]
                  /\ \/ /\ store[i].type = "user"
                        /\ store'[i] = [store[i] EXCEPT !.sub = store'[i].sub]
                        /\ \E t \in TaskIds :
                              /\ tasks[t].phase = "patch" /\ tasks'[t].phase = "addBot"
                              /\ tasks[t].userDocRef = store[i].id
                              /\ store'[i].sub = tasks[t].translation
                     \/ /\ store[i].type = "bot"
                        /\ store'[i] = [store[i] EXCEPT !.displayLang = store'[i].displayLang]
                        /\ \E u \in toggling \ toggling' :
                              u.id = store[i].id /\ store'[i].displayLang = u.displayLang
        /\ LET common == {store[i].id : i \in 1..Len(store)} \cap
                          {store'[j].id : j \in 1..Len(store')}
           IN  IdsIn(store, common) = IdsIn(store', common)
      ]_vars

\* C17 witness: the question carries its translation and its plan card was switched to
\* Japanese, both by acknowledged patches, next to the untouched welcome record
C17_Witness ==
    /\ toggling = {}
    /\ \E i, j, k \in 1..Len(store) :
          /\ store[i].type = "user" /\ store[i].sub = UserTranslation
          /\ store[j].type = "bot" /\ ~store[j].isWelcome /\ store[j].displayLang = "Japanese"
          /\ store[k] = WelcomeDoc(store[k].id)

\* C18: when the store accepts the read and every delete of Clear History, the step in
\* which handleClearHistory reads the collection starts a delete for every document in
\* it, the step that settles a delete takes its document out of the collection, and
\* every handleClearHistory call gets to the end of its read and of its deletes, so
\* every document read is eventually removed; and a document leaves the collection
\* only in a step that settles a deleteDoc of handleClearHistory for it.
C18_ClearRemovesEveryRecord ==
    /\ [][ clearReads' < clearReads => \A id \in StoreIds : id \in deleting' ]_vars
    /\ [][ \A id \in deleting \ deleting' : id \notin StoreIds' ]_vars
    /\ []<>(clearReads = 0 /\ deleting = {})
    /\ [][ \A id \in StoreIds : id \notin StoreIds' => id \in deleting /\ id \notin deleting' ]_vars

\* C18 witness: Clear History was confirmed on a history of the welcome record, a
\* question and its plan; every document it read is gone and the collection holds only
\* a welcome record written after them
C18_Witness ==
    /\ clearReads = 0 /\ deleting = {}
    /\ userOps = 2
    /\ \E t \in TaskIds : tasks[t].phase = "done"
    /\ Len(store) = 1
    /\ store[1].type = "bot" /\ store[1].isWelcome /\ store[1].id > 3
    /\ Len(chatHistory) = 1 /\ chatHistory[1].id = store[1].id

\* C19: whatever getDocs and the deletes of Clear History answer, a document leaves the
\* collection only when a delete of it is settled and no document that left comes
\* back, a step that settles a read or a delete without removing a document leaves the
\* collection as it was, and again and again the in-memory log is not empty and equals
\* the sanitized content of the collection.
C19_FailedClearResyncs ==
    /\ [][ /\ \A id \in StoreIds : id \notin StoreIds' => id \in deleting \ deleting'
           /\ \A id \in StoreIds' : id \in StoreIds \/ id > clock
           /\ (clearReads' < clearReads \/ deleting' # deleting) /\ Len(store') = Len(store)
                 => store' = store
         ]_vars
    /\ []<>(Len(chatHistory) > 0 /\ chatHistory = SanitizeAll(store))

\* C19 witness: Clear History was confirmed on a log of the welcome record and a
\* question, both survived it (a failed read, or rejected deletes), no call is pending
\* and the log shows them again, with the welcome record seeded since
C19_Witness ==
    /\ clears = 1 /\ clearReads = 0 /\ deleting = {}
    /\ clock = 3 /\ Len(store) = 3
    /\ store[2].type = "user"
    /\ store[3].type = "bot" /\ store[3].isWelcome
    /\ peerFeed = NoSnapshot
    /\ chatHistory = SanitizeAll(store)

\* C20: the snapshot mapping never raises an error: whatever JSON-compatible raw record
\* the collection holds (missing data, null or non-object content, null or non-object
\* timeline entries, wrong-typed leaves), the listener call maps it to a ChatMessage,
\* which the in-memory log then shows.
C20_SanitizeNeverThrows ==
    delivered.any =>
        /\ ev # "TypeError"
        /\ Len(chatHistory) = Len(store)
        /\ \A i \in 1..Len(store) : chatHistory[i].k = "object"

\* C21: the snapshot mapping is idempotent: once the listener has mapped a raw record
\* to the record of the in-memory log, mapping that record again gives the same record,
\* also when a string field of the raw record held an object whose en or ja is not a
\* string.
C21_SanitizeIdempotent ==
    delivered.any /\ ev # "TypeError" =>
        \A i \in 1..Len(chatHistory) : SanitizeRecord(i, chatHistory[i]) = chatHistory[i]

\* the timeline_data of a language variant of a mapped bot record
TimelineOf(msg, lang) == msg.f.data.f.content.f[lang].f.timeline_data

\* the timeline_data of a language variant as the raw record holds it
RawTimelineOf(raw, lang) ==
    OptProp(OptProp(OptProp(OptProp(raw, "data"), "content"), lang), "timeline_data")

\* a mapped timeline: an array whose entries have coords null or a pair
TimelineShaped(timeline) ==
    /\ timeline.k = "array"
    /\ \A j \in 1..Len(timeline.items) :
            LET coords == timeline.items[j].f.coords IN
            coords = JsNull \/ (coords.k = "array" /\ Len(coords.items) = 2)

\* C22: for every raw bot record that the listener has mapped, the in-memory log
\* holds its record, in which the timeline of the en and of the ja variant is an array
\* (empty when the raw timeline_data is missing or not an array) and the coords of
\* every entry is null or an array of exactly two elements.
C22_TimelinesAreArrays ==
    delivered.any /\ ev # "TypeError" =>
        \A i \in 1..Len(store) :
            Prop(store[i], "type") = JsString("bot") =>
                /\ Len(chatHistory) = Len(store)
                /\ \A lang \in {"en", "ja"} :
                        /\ TimelineShaped(TimelineOf(chatHistory[i], lang))
                        /\ RawTimelineOf(store[i], lang).k # "array"
                              => TimelineOf(chatHistory[i], lang).items = << >>

\* C22 witness: the listener has mapped a bot record whose en timeline had an entry
\* with a pair of coordinates and an entry with coords of another shape, and whose ja
\* variant had no timeline_data: the first keeps its coords, the second has null, and
\* the ja timeline is empty
C22_Witness ==
    /\ delivered.any /\ ev # "TypeError"
    /\ Prop(store[1], "type") = JsString("bot")
    /\ RawTimelineOf(store[1], "ja") = JsUndefined
    /\ Len(chatHistory) = 1
    /\ TimelineOf(chatHistory[1], "ja").items = << >>
    /\ Len(TimelineOf(chatHistory[1], "en").items) = 2
    /\ TimelineOf(chatHistory[1], "en").items[1].f.coords = JsArray(<<JsNumber(35), JsNumber(135)>>)
    /\ RawTimelineOf(store[1], "en").items[2].k = "object"
    /\ Prop(RawTimelineOf(store[1], "en").items[2], "coords").k = "array"
    /\ TimelineOf(chatHistory[1], "en").items[2].f.coords = JsNull

\* the string leaves of a mapped record
StringLeaves(msg) ==
    IF Prop(msg, "type") = JsString("user") THEN {msg.f.main, msg.f.sub}
    ELSE {msg.f.data.f.city}
            \cup UNION { {msg.f.data.f.content.f[lang].f.title, msg.f.data.f.content.f[lang].f.report}
                            \cup UNION { {TimelineOf(msg, lang).items[j].f.text,
                                           TimelineOf(msg, lang).items[j].f.name} :
                                          j \in 1..Len(TimelineOf(msg, lang).items) } :
                         lang \in {"en", "ja"} }

\* what the claim says of one leaf: missing or null gives "", a string is kept
LeafResolved(rawLeaf, leaf) ==
    /\ Nullish(rawLeaf) => leaf = JsString("")
    /\ rawLeaf.k = "string" => leaf = rawLeaf

\* C23: for every raw record that the listener has mapped, each string leaf of the
\* record in the in-memory log (main and sub of a user message; city, and title,
\* report, timeline text and name in both languages, of a bot message) is a string;
\* a missing or null leaf has become "" and a string leaf is kept.
C23_StringLeavesAreStrings ==
    delivered.any /\ ev # "TypeError" =>
        \A i \in 1..Len(chatHistory) :
            /\ \A leaf \in StringLeaves(chatHistory[i]) : leaf.k = "string"
            /\ IF Prop(store[i], "type") = JsString("user")
               THEN /\ LeafResolved(Prop(store[i], "main"), chatHistory[i].f.main)
                    /\ LeafResolved(Prop(store[i], "sub"), chatHistory[i].f.sub)
               ELSE LeafResolved(OptProp(Prop(store[i], "data"), "city"),
                                 chatHistory[i].f.data.f.city)

\* C24: whatever the store contains, every bot message of the in-memory log has a
\* displayLang that is 'English' or 'Japanese'.
C24_DisplayLangIsOneOfTwo ==
    delivered.any /\ ev # "TypeError" =>
        \A i \in 1..Len(chatHistory) :
            Prop(chatHistory[i], "type") = JsString("bot") =>
                Prop(chatHistory[i], "displayLang") \in {JsString("English"), JsString("Japanese")}

\* C25: the notification slot holds one message, the one of the latest show, and a
\* notification shown at time t is not cleared before t + 3 seconds: a timer started
\* by an earlier show does not clear a notification shown later before that one's own
\* three seconds are over.
C25_NotificationStaysThreeSeconds ==
    /\ [](notification \in Messages \cup {Null})
    /\ [][shownAt' # shownAt => notification' \in Messages]_vars
    /\ [][notification # Null /\ notification' = Null => now >= shownAt + 3]_vars

\* C26: a toggleAudio on the card that is playing stops playback and clears
\* playingIndex without speaking a new utterance; a toggleAudio on another card cuts
\* off what is spoken and speaks that card's utterance; at most one utterance is
\* audible at any time.
C26_ToggleAudioIsExclusive ==
    /\ [](Cardinality(audible) <= 1)
    /\ [][ev' = "toggleAudio" =>
            IF playingIndex = played'
            THEN playingIndex' = NoIndex /\ audible' = {}
            ELSE playingIndex' = played' /\ audible' = {played'}
         ]_vars

\* C26 witness: a toggleAudio on the third card has cut off an utterance that was
\* being spoken and the third card's utterance is the one audible
C26_Witness ==
    /\ ev = "toggleAudio"
    /\ played = 3
    /\ staleEnds = 1
    /\ playingIndex = 3
    /\ audible = {3}

\* C27: when an utterance is spoken to its end, playingIndex is cleared, and the next
\* toggleAudio, on the same card too, speaks the card's utterance instead of stopping.
C27_EndClearsActiveSlot ==
    /\ [][ev' = "ended" => playingIndex' = NoIndex /\ audible' = {}]_vars
    /\ [][ev = "ended" /\ ev' = "toggleAudio" =>
            playingIndex' = played' /\ audible' = {played'}]_vars

\* C27 witness: the utterance of the card played last was spoken to its end and
\* nothing is playing
C27_Witness ==
    /\ ev = "ended"
    /\ played = 2
    /\ playingIndex = NoIndex
    /\ audible = {}
    /\ staleEnds = 0

\* C28: every stopRecording in Recording stops the recorder, releases the tracks of
\* the microphone stream, closes the analysis graph and cancels the animate loop:
\* after the stop no recorder records, no stream is live, no AudioContext is open and
\* no animate frame is requested or runs again; the frame reference is cleared, so the
\* cancellation is done once.
C28_StopReleasesEverything ==
    [][appState = "recording" /\ (\E r \in Recs : recState[r] = "recording" /\ recState'[r] = "stopping")
          => /\ \A r \in Recs : recState'[r] # "recording"
             /\ \A r \in Recs : ~streamOpen'[r]
             /\ \A r \in Recs : ~ctxOpen'[r]
             /\ \A r \in Recs : ~animating'[r]
             /\ animationFrameRef' = 0 /\ audioContextRef' = 0
      ]_vars

\* C29: when a startRecording fails at any step of the acquisition (getUserMedia
\* rejected or unsupported, recorder creation throwing), the notification
\* "Microphone Access Denied." is shown and the session is in Idle afterwards: the
\* failed call starts no recorder and does not enter Recording.
C29_AcquisitionFailureStaysIdle ==
    [][acquiring' = acquiring - 1 /\ (\A r \in Recs : recState'[r] = "recording" => recState[r] = "recording")
          => /\ notification' = "Microphone Access Denied."
             /\ appState' = "idle"
             /\ mediaRecorderRef' = mediaRecorderRef
      ]_vars

\* C30: a call of the snapshot listener, in whatever session state it comes
\* (Recording, Transcribing, Verification and Planning included), changes the
\* in-memory log and at most adds the welcome record to the store: the session state,
\* the transcript pair, the requests in flight and the plan calls are left as they are.
C30_SnapshotLeavesSessionAlone ==
    [][delivered' # delivered =>
          /\ appState' = appState
          /\ transcriptData' = transcriptData
          /\ transcribing' = transcribing
          /\ tasks' = tasks
          /\ \/ store' = store
             \/ /\ Len(store') = Len(store) + 1
                /\ SubSeq(store', 1, Len(store)) = store
                /\ store'[Len(store')].type = "bot" /\ store'[Len(store')].isWelcome
      ]_vars

\* C30 witness: the session is Planning after a voice confirmation, the plan request
\* is in flight, and the listener has been called with the user message that this
\* plan call wrote: the log shows it and the session is still Planning
C30_Witness ==
    /\ appState = "planning"
    /\ \E t \in TaskIds :
            /\ tasks[t].phase = "request" /\ tasks[t].isVoice
            /\ HasDoc(delivered.docs, tasks[t].userDocRef)
    /\ chatHistory = SanitizeAll(delivered.docs)

\* C31: reloading the client wipes the conversation: after a reload, the log shown
\* holds none of the questions, plans and error records that the log showed when the
\* page was reloaded.
C31_ReloadWipesConversation ==
    \A i \in 1..Len(chatHistory) : chatHistory[i].id \notin lastSession

\* C32: Retry in Verification puts the session in Idle with both fields of the
\* transcript pair empty, writes no message and starts no plan call or request.
C32_RetryDiscardsTranscript ==
    [][ev' = "retry" =>
          /\ appState = "verification"
          /\ appState' = "idle"
          /\ transcriptData' = EmptyTranscript
          /\ store' = store
          /\ tasks' = tasks /\ nextTask' = nextTask
          /\ transcribing' = transcribing
      ]_vars

\* C32 witness: Retry was pressed on a transcript shown for verification
C32_Witness ==
    /\ ev = "retry"
    /\ appState = "idle"
    /\ transcriptData = EmptyTranscript
    /\ \A t \in TaskIds : tasks[t].phase = "none"

\* C33: the plan call started by the Generate button is given the ja field of the
\* transcript pair shown, and the POST /generate_plan it sends after writing the user
\* message carries that text, whether the display language is English or Japanese.
C33_ConfirmSendsSourceTranscript ==
    [][/\ ev' = "confirm" =>
            /\ tasks'[nextTask'].isVoice
            /\ tasks'[nextTask'].lang = targetLang
            /\ tasks'[nextTask'].textInput = transcriptData.ja
       /\ \A t \in TaskIds :
            tasks[t].isVoice /\ tasks[t].phase = "addUser" /\ tasks'[t].phase = "request" =>
                tasks'[t].textInput = tasks[t].pair.ja
      ]_vars

\* C33 witness: with English displayed, the request of a confirmed transcript is in
\* flight and carries the Japanese transcript
C33_Witness ==
    \E t \in TaskIds :
        /\ tasks[t].isVoice
        /\ tasks[t].phase = "request"
        /\ tasks[t].lang = "English"
        /\ tasks[t].textInput = "ja:Tokyo de nani wo kiru?"

\* the first type of the preference list mp4, ogg, webm that the probe reports as
\* supported, if there is one
FirstSupported(type) ==
    /\ type \in supported
    /\ type = "audio/ogg" => "audio/mp4" \notin supported
    /\ type = "audio/webm" => "audio/mp4" \notin supported /\ "audio/ogg" \notin supported

\* C34: the container type a startRecording call chooses is the first of mp4, ogg,
\* webm that MediaRecorder.isTypeSupported reports as supported; a type reported as
\* unsupported is never chosen.
C34_ChoosesFirstSupportedContainer ==
    \A r \in Recs : mimeType[r] # NoType => FirstSupported(mimeType[r])

\* C35: whenever the session is Idle both fields of the transcript pair are empty:
\* every way back to Idle, a failed plan request and a failed write of the user
\* message after a voice confirmation included, discards the transcript.
C35_IdleHasNoTranscript ==
    appState = "idle" => transcriptData = EmptyTranscript

\* C36: when Clear History has deleted the user message of a typed question while its
\* plan request was in flight and the plan response arrives successfully, the call goes
\* on to write the generated plan: it does not take the failure path (notification and
\* error record).
C36_ClearDoesNotFailThePlan ==
    [][\A t \in TaskIds :
          /\ tasks[t].phase = "patch"
          /\ ~tasks[t].isVoice
          /\ tasks[t].translation # Undefined
          /\ ~HasDoc(store, tasks[t].userDocRef)
          => tasks'[t].phase # "addError" /\ notification' # PlanningFailed
      ]_vars

\* C37: in every state in which the session is not Recording no microphone stream is
\* live, no AudioContext is open and no animate frame is requested; a startRecording
\* that fails after the stream was acquired and animate() was called leaves none behind.
C37_NothingHeldOutsideRecording ==
    appState # "recording" =>
        \A r \in Recs : ~streamOpen[r] /\ ~ctxOpen[r] /\ ~animating[r]

\* C38: in every state playingIndex is set exactly when an utterance is being spoken,
\* and it is the card of that utterance; the end event of an utterance that was cut
\* off, delivered after a newer utterance started, does not clear the newer one's slot.
C38_SlotNamesTheUtterancePlaying ==
    /\ playingIndex # NoIndex <=> audible # {}
    /\ playingIndex # NoIndex => audible = {playingIndex}

\* C39: without an identity a text submit and a voice confirmation do nothing: the
\* session state stays what it was (Idle, or Verification for the confirmation),
\* nothing is written to the history and no plan call or request is started.  With
\* blank text in the input box no step, a submit included, starts a plan call or
\* takes the session from Idle to Planning.
C39_NoIdentityOrBlankIsNoOp ==
    [][/\ ev' \in {"noSubmit", "noConfirm"} =>
            /\ ~user
            /\ appState' = appState
            /\ ev' = "noSubmit" => appState = "idle"
            /\ ev' = "noConfirm" => appState = "verification"
            /\ transcriptData' = transcriptData
            /\ store' = store
            /\ tasks' = tasks /\ nextTask' = nextTask
            /\ historyContext' = historyContext
       /\ Trim(inputText) = "" /\ appState = "idle" =>
            /\ nextTask' = nextTask
            /\ appState' # "planning"
      ]_vars

\* C39 witness: Generate was pressed on a transcript without an identity and the
\* popup still shows the transcript
C39_Witness ==
    /\ ~user
    /\ ev = "noConfirm"
    /\ appState = "verification"
    /\ transcriptData # EmptyTranscript
    /\ nextTask = 0

====
